---- MODULE Spec2Model ----
(***************************************************************************)
(* Offline-first synchronisation engine of SharedListsApp: the Sync        *)
(* Coordinator (ListController), the durable outbox (SyncQueueRepository   *)
(* over IndexedDBStorage), the Outbox Processor (BackgroundSyncService),   *)
(* the Connection Monitor and the Document Model (YjsListManager).         *)
(*                                                                         *)
(* Every async handler is a sequence of steps.  One step is the effect of  *)
(* the awaited operation (a Local Store transaction, a remote call)        *)
(* followed by the synchronous code that runs when the await resumes, up   *)
(* to the next awaited operation.  Handlers interleave between steps.      *)
(***************************************************************************)
EXTENDS Integers, Sequences, FiniteSets, TLC

(***************************************************************************)
(* Bounds of the model                                                     *)
(***************************************************************************)
MaxEntries == 2        \* sync-queue uuids that generateUUID can hand out
MaxDate == 1           \* addedDate values are 0..MaxDate
MaxItems == 2          \* item ids that generateUUID can hand out
MaxRuns == 1           \* processSyncQueue invocations that may overlap
MaxOps == 1            \* coordinator operations the user starts
MaxLeftover == 2       \* entries a previous session may have left in the queue
MaxPurged == 1         \* entries left in the queue when lists are removed
MaxBoots == 2          \* bootstrapFromRemote invocations
MaxRows == 2           \* rows of the remote table crdt_updates
MaxInstant == 3        \* created_at values are 1..MaxInstant
TicksPerMs == 2        \* resolution of created_at: instants per millisecond
MaxInbound == 1        \* realtime notifications the listener receives
MaxCalls == 3          \* getClientId invocations
MaxHandlers == 3       \* subscriptions the Event Bus hands out
MaxClientIds == 3      \* identifiers generateUUID can hand out to getClientId
MaxPublishes == 2      \* events published on the Event Bus
MaxMoved == 3          \* items of the list whose items are moved

(***************************************************************************)
(* Program constants                                                       *)
(***************************************************************************)
SYNC_INTERVAL_MS == 5000
MAX_BACKOFF_MS == 30000
EMPTY_RUNS_BACKOFF == 3
EMPTY_RUNS_STOP == 10

Lists == {"L1", "L2"}
UUIDs == 1..MaxEntries
Dates == 0..MaxDate
ItemIds == 1..MaxItems
RunIds == 1..MaxRuns
Texts == {"b"}
BootIds == 1..MaxBoots
Instants == 1..MaxInstant
RowIds == 1..MaxRows
ReplicaIds == {1, 2}
CallIds == 1..MaxCalls
HandlerIds == 1..MaxHandlers
BusTypes == {"LIST_CREATED", "LIST_DELETED"}
MergeItemIds == {1, 2}
MergeTexts == {"Bread"}

\* an absent value is the empty sequence, a present value x is <<x>>
NoDoc == <<>>
Null == <<>>
NoTimeout == "none"

ItemKinds == {"addItem", "editItem", "deleteItem", "toggleItem", "moveItem"}
AlwaysQueueKinds == {"editListMetadata", "clearCompletedItems"}
RemoveKinds == {"deleteList", "leaveList"}
OpKinds == ItemKinds \cup AlwaysQueueKinds \cup RemoveKinds
           \cup {"createList", "clearAllData", "handleRemoteListDeletion"}

VARIABLES
    browserOnline,      \* ConnectionMonitor.connectionState.browserOnline
    realtimeConnected,  \* ConnectionMonitor.connectionState.realtimeConnected
    isOnline,           \* ConnectionMonitor.connectionState.isOnline
    remoteOk,           \* environment: the remote store answers calls with success
    docs,               \* YjsListManager.documents
    lists,              \* Local Store table "lists"
    syncQueue,          \* Local Store table "syncQueue"
    usedIds,            \* uuids generateUUID has handed out for queue entries
    usedLists,          \* list ids generateUUID has handed out
    remote,             \* what the remote store has received
    ackedIds,           \* entries whose remote operation returned successfully in the outbox
    purgedIds,          \* entries deleted by clearSyncQueueItemsForList
    wipedIds,           \* entries deleted by clearAllSyncQueueItems
    isStarted,          \* BackgroundSyncService.isStarted
    startPc,            \* position of BackgroundSyncService.start()
    isRunning,          \* BackgroundSyncService.isRunning
    syncInterval,       \* BackgroundSyncService.syncInterval is installed
    intervalMs,         \* period the installed interval timer was given, in half milliseconds
    timers,             \* interval timers installed by setInterval and not cleared
    currentBackoffMs,   \* BackgroundSyncService.currentBackoffMs, in half milliseconds
    consecutiveEmptyRuns,
    connectionChangeTimeout,       \* state held by the pending debounce timer
    debounced,                     \* history: the pending timer replaced one that had not fired
    isProcessingConnectionChange,  \* handleConnectionChange is awaiting checkAndStartSync
    runs,               \* processSyncQueue invocations
    op,                 \* the coordinator operation in flight, or the one just completed
    opCount,            \* coordinator operations started so far
    metadata,           \* Local Store table "metadata": the sync records of each list
    remoteEvents,       \* events published by bootstrap and by the realtime handlers
    isBootstrapping,    \* ListController.isBootstrapping
    boots,              \* bootstrapFromRemote invocations
    inbound,            \* the CRDT update callback of RemoteUpdateHandler in flight
    inboundCount,       \* realtime notifications received so far
    crdtUpdates,        \* remote table crdt_updates
    replicas,           \* Y.Doc replicas of one list held by two clients
    cachedClientId,     \* ListController.cachedClientId
    clientIdRecord,     \* Local Store table "metadata", key client_id
    generatedClientIds, \* identifiers generateUUID has handed out to getClientId
    idCalls,            \* getClientId invocations
    eventSubscriptions, \* EventService.eventSubscriptions
    suspended,          \* a coordinator operation awaiting while another one runs
    awaitingRun,        \* a processSyncQueue invocation awaiting its remote call while another one runs
    invocations,        \* how often each subscribed handler ran in the last publish
    lastPublish         \* the last EventService.publish and how it returned

connVars == <<browserOnline, realtimeConnected, isOnline>>
storeVars == <<docs, lists, syncQueue, usedIds, usedLists>>
histVars == <<remote, ackedIds, purgedIds, wipedIds>>
loopVars == <<isRunning, syncInterval, intervalMs, timers, currentBackoffMs, consecutiveEmptyRuns>>
svcVars == <<isStarted, startPc, connectionChangeTimeout, debounced, isProcessingConnectionChange>>
opVars == <<op, opCount>>
reconVars == <<remoteEvents, isBootstrapping, boots, inbound, inboundCount, crdtUpdates, replicas>>
syncVars == <<metadata, reconVars>>
idVars == <<cachedClientId, clientIdRecord, generatedClientIds, idCalls>>
busVars == <<eventSubscriptions, invocations, lastPublish>>
overlapVars == <<suspended, awaitingRun>>
sideVars == <<idVars, busVars, overlapVars>>
coreVars == <<connVars, remoteOk, storeVars, histVars, loopVars, svcVars, runs, opVars, syncVars>>
coreVarsButRuns == <<connVars, remoteOk, storeVars, histVars, loopVars, svcVars, opVars, syncVars>>
vars == <<coreVars, sideVars>>

(***************************************************************************)
(* Sequences                                                               *)
(***************************************************************************)
Range(s) == {s[i] : i \in 1..Len(s)}

RemoveAt(s, i) == SubSeq(s, 1, i - 1) \o SubSeq(s, i + 1, Len(s))

InsertAt(s, i, x) == SubSeq(s, 1, i - 1) \o <<x>> \o SubSeq(s, i, Len(s))

Min(a, b) == IF a < b THEN a ELSE b

Max(a, b) == IF a > b THEN a ELSE b

(***************************************************************************)
(* Document Model (YjsListManager).  A document is its title and its       *)
(* ordered items; documents[L] = NoDoc when no Y.Doc is held for L.        *)
(***************************************************************************)
NewDoc(title) == [title |-> title, items |-> <<>>]

\* JavaScript index (from 0) of the first item with this id, -1 when absent
IndexOfItem(items, itemId) ==
    IF \E i \in 1..Len(items) : items[i].id = itemId
    THEN (CHOOSE i \in 1..Len(items) :
              /\ items[i].id = itemId
              /\ \A j \in 1..(i - 1) : items[j].id # itemId) - 1
    ELSE -1

YjsCreateList(ds, L, title) ==
    IF ds[L] # NoDoc THEN ds ELSE [ds EXCEPT ![L] = <<NewDoc(title)>>]

YjsDeleteList(ds, L) == [ds EXCEPT ![L] = NoDoc]

YjsAddItem(d, itemId, text) ==
    [d EXCEPT !.items = Append(@, [id |-> itemId, content |-> text, isCompleted |-> FALSE])]

YjsEditItem(d, itemId, text) ==
    LET i == IndexOfItem(d.items, itemId)
    IN  IF i = -1 THEN d
        ELSE [d EXCEPT !.items =
                 InsertAt(RemoveAt(@, i + 1), i + 1, [@[i + 1] EXCEPT !.content = text])]

YjsDeleteItem(d, itemId) ==
    LET i == IndexOfItem(d.items, itemId)
    IN  IF i = -1 THEN d ELSE [d EXCEPT !.items = RemoveAt(@, i + 1)]

YjsToggleItem(d, itemId) ==
    LET i == IndexOfItem(d.items, itemId)
    IN  IF i = -1 THEN d
        ELSE [d EXCEPT !.items =
                 InsertAt(RemoveAt(@, i + 1), i + 1,
                          [@[i + 1] EXCEPT !.isCompleted = ~@])]

YjsMoveItem(d, itemId, newIndex) ==
    LET currentIndex == IndexOfItem(d.items, itemId)
        clampedNewIndex == Max(0, Min(newIndex, Len(d.items) - 1))
        adjustedIndex == IF currentIndex < clampedNewIndex
                         THEN clampedNewIndex - 1 ELSE clampedNewIndex
    IN  IF currentIndex = -1 \/ currentIndex = clampedNewIndex THEN d
        ELSE [d EXCEPT !.items =
                 InsertAt(RemoveAt(@, currentIndex + 1), adjustedIndex + 1,
                          @[currentIndex + 1])]

YjsEditListTitle(d, newTitle) == [d EXCEPT !.title = newTitle]

RECURSIVE KeepOpen(_)
KeepOpen(items) ==
    IF items = <<>> THEN <<>>
    ELSE IF Head(items).isCompleted THEN KeepOpen(Tail(items))
         ELSE <<Head(items)>> \o KeepOpen(Tail(items))

YjsClearCompletedItems(d) == [d EXCEPT !.items = KeepOpen(@)]

\* getYjsState: the encoded full state, null when the document is not held
getYjsState(ds, L) == IF ds[L] = NoDoc THEN Null ELSE <<ds[L][1]>>

(***************************************************************************)
(* Sync queue (SyncQueueRepository over the IndexedDB store keyed by uuid) *)
(***************************************************************************)
QueueIds(q) == {e.uuid : e \in q}

\* addSyncQueueItem: the new row; addedDate is the wall clock shifted by the
\* timezone offset, an input of the environment
NewEntry(u, L, type, data, date) ==
    [uuid |-> u, listUUID |-> L, operationType |-> type, data |-> data, addedDate |-> date]

RECURSIVE SeqByKey(_)
\* getAll(): the rows in key order
SeqByKey(q) ==
    IF q = {} THEN <<>>
    ELSE LET e == CHOOSE x \in q : \A y \in q : x.uuid <= y.uuid
         IN  <<e>> \o SeqByKey(q \ {e})

getAllSyncQueueItems(q) == SeqByKey(q)

RECURSIVE FilterList(_, _)
FilterList(s, L) ==
    IF s = <<>> THEN <<>>
    ELSE IF Head(s).listUUID = L THEN <<Head(s)>> \o FilterList(Tail(s), L)
         ELSE FilterList(Tail(s), L)

\* getSyncQueueItemsForList
getSyncQueueItemsForList(q, L) == FilterList(getAllSyncQueueItems(q), L)

deleteSyncQueueItem(q, u) == {e \in q : e.uuid # u}

(***************************************************************************)
(* Outbox Processor: grouping, ordering and optimisation of one tick       *)
(***************************************************************************)
typePriority(type) ==
    CASE type = "LIST_CREATE" -> 1
      [] type = "YJS_UPDATE" -> 2
      [] type = "LIST_DELETE" -> 3
      [] type = "LIST_LEAVE" -> 4

\* variant: the comparator looks at the enqueue time only
CompareOpsByDate(a, b) == a.addedDate - b.addedDate

\* the comparator of processListOperations: negative when a sorts before b
CompareOps(a, b) ==
    IF typePriority(a.operationType) # typePriority(b.operationType)
    THEN typePriority(a.operationType) - typePriority(b.operationType)
    ELSE a.addedDate - b.addedDate

RECURSIVE InsertSorted(_, _)
InsertSorted(s, x) ==
    IF s = <<>> THEN <<x>>
    ELSE IF CompareOps(x, Head(s)) < 0 THEN <<x>> \o s
         ELSE <<Head(s)>> \o InsertSorted(Tail(s), x)

RECURSIVE SortOps(_)
\* Array.prototype.sort with CompareOps: a stable sort
SortOps(s) ==
    IF s = <<>> THEN <<>>
    ELSE InsertSorted(SortOps(SubSeq(s, 1, Len(s) - 1)), s[Len(s)])

RECURSIVE ListOrder(_, _)
\* keys of the Map built by groupOperationsByList, in insertion order
ListOrder(s, seen) ==
    IF s = <<>> THEN <<>>
    ELSE IF Head(s).listUUID \in seen THEN ListOrder(Tail(s), seen)
         ELSE <<Head(s).listUUID>> \o ListOrder(Tail(s), seen \cup {Head(s).listUUID})

groupOperationsByList(s) ==
    LET keys == ListOrder(s, {})
    IN  [i \in 1..Len(keys) |-> FilterList(s, keys[i])]

RECURSIVE OptimizeKeeping(_, _)
\* variant: a LIST_DELETE is kept next to the operations before it
OptimizeKeeping(ops, optimized) ==
    IF ops = <<>> THEN optimized
    ELSE LET o == Head(ops)
         IN  IF o.operationType = "LIST_LEAVE" THEN OptimizeKeeping(Tail(ops), optimized)
             ELSE OptimizeKeeping(Tail(ops), Append(optimized, o))

RECURSIVE OptimizeFrom(_, _)
\* the loop of optimizeOperations over the remaining operations
OptimizeFrom(ops, optimized) ==
    IF ops = <<>> THEN optimized
    ELSE LET o == Head(ops)
         IN  CASE o.operationType = "LIST_DELETE" -> <<o>>
               [] o.operationType = "LIST_CREATE" -> OptimizeFrom(Tail(ops), Append(optimized, o))
               [] o.operationType = "YJS_UPDATE" -> OptimizeFrom(Tail(ops), Append(optimized, o))
               [] OTHER -> OptimizeFrom(Tail(ops), optimized)

optimizeOperations(ops) == OptimizeFrom(ops, <<>>)

\* what processListOperations will send for one group, in order
PlanGroup(ops) == optimizeOperations(SortOps(ops))

PlanAll(s) ==
    LET groups == groupOperationsByList(s)
    IN  [i \in 1..Len(groups) |-> PlanGroup(groups[i])]

(***************************************************************************)
(* Initial state: the application after its services were constructed and  *)
(* the local lists were loaded; list L1 exists locally and remotely.       *)
(***************************************************************************)
IdleRun == [pc |-> "idle", snap |-> <<>>, todo |-> <<>>, log |-> <<>>]

IdleCall == [pc |-> "idle", pending |-> Null, result |-> Null, threw |-> FALSE]

NoPublish == [type |-> "none", returned |-> "none", count |-> 0]

IdleOp == [kind |-> "none", list |-> "none", pc |-> "idle", yjsState |-> Null,
           online |-> "unread", saved |-> FALSE, calls |-> 0, pushed |-> FALSE,
           enq |-> 0, triggered |-> FALSE, woke |-> FALSE, published |-> FALSE,
           rejected |-> FALSE,
           purge |-> <<>>, entry |-> <<>>, noop |-> FALSE, absent |-> FALSE,
           moved |-> <<>>, overlapped |-> "none"]

NoRemote == [created |-> {"L1"}, deleted |-> {}, left |-> {}]

FirstItem == [id |-> 1, content |-> "a", isCompleted |-> FALSE]

FirstDoc == [title |-> "a", items |-> <<FirstItem>>]

\* the identity getClientId returns: the one an earlier session stored under
\* the key client_id; the other clients of the remote store have another one
OurClientId == "c1"

OtherClientId == "c2"

ClientIds == {OurClientId, OtherClientId}

\* the records clearSyncMetadataForDocument knows of one list: last_sync_L,
\* sync_state_L and applied_remote_updates_L, none of them stored
NoSyncMetadata == [last_sync |-> Null, sync_state |-> Null, applied_remote_updates |-> Null]

IdleBoot == [pc |-> "idle", todo |-> <<>>, existing |-> FALSE, since |-> Null,
             updates |-> <<>>, yjsState |-> Null, applied |-> <<>>, calls |-> 0,
             published |-> 0, outcome |-> "none"]

\* the callback at rest keeps the row it handled last and what it did with it
IdleInbound == [pc |-> "idle", record |-> <<>>, yjsState |-> Null, outcome |-> "none"]

\* a replica of the items array: the integrated structs in document order
\* (deleted ones included) and the clock of the next struct of this client
NewReplica == [seq |-> <<>>, clock |-> 0, clientID |-> 0, forked |-> <<>>,
               did |-> "none", itemId |-> 0, applied |-> FALSE]

\* the sync records, the reconciliation and the realtime handlers at rest
Unreconciled ==
    /\ remoteEvents = <<>>
    /\ isBootstrapping = FALSE
    /\ boots = [b \in BootIds |-> IdleBoot]
    /\ inbound = IdleInbound
    /\ inboundCount = 0
    /\ replicas = [c \in ReplicaIds |-> NewReplica]

\* no getClientId call is in flight and nothing has subscribed to the Event Bus
SideAtRest ==
    /\ cachedClientId = Null
    /\ clientIdRecord = Null
    /\ generatedClientIds = 0
    /\ idCalls = [c \in CallIds |-> IdleCall]
    /\ eventSubscriptions = [t \in BusTypes |-> <<>>]
    /\ invocations = [h \in HandlerIds |-> 0]
    /\ lastPublish = NoPublish
    /\ suspended = Null
    /\ awaitingRun = Null

\* the application loaded with one of these queues in the Local Store and
\* one of these contents of the remote store
LoadedWith(d, queues, remotes) ==
    /\ browserOnline \in BOOLEAN
    /\ realtimeConnected = FALSE
    /\ isOnline = FALSE
    /\ remoteOk \in BOOLEAN
    /\ docs = [L \in Lists |-> IF L = "L1" THEN <<d>> ELSE NoDoc]
    /\ lists = [L \in Lists |-> IF L = "L1" THEN <<d>> ELSE Null]
    /\ syncQueue \in queues
    /\ usedIds = QueueIds(syncQueue)
    /\ usedLists = {"L1"}
    /\ remote \in remotes
    /\ ackedIds = {}
    /\ purgedIds = {}
    /\ wipedIds = {}
    /\ isStarted = FALSE
    /\ startPc = "idle"
    /\ isRunning = FALSE
    /\ syncInterval = FALSE
    /\ intervalMs = 0
    /\ timers = 0
    /\ currentBackoffMs = 2 * SYNC_INTERVAL_MS
    /\ consecutiveEmptyRuns = 0
    /\ connectionChangeTimeout = NoTimeout
    /\ debounced = FALSE
    /\ isProcessingConnectionChange = FALSE
    /\ runs = [r \in RunIds |-> IdleRun]
    /\ op = IdleOp
    /\ opCount = 0

\* the list L1 holds the one item of FirstDoc
Loaded(queues, remotes) == LoadedWith(FirstDoc, queues, remotes)

\* the application loaded with one of these queues; no sync record is stored
\* and no other client has pushed
Boot(queues) ==
    /\ Loaded(queues, {NoRemote})
    /\ SideAtRest
    /\ metadata = [L \in Lists |-> NoSyncMetadata]
    /\ crdtUpdates = {}
    /\ Unreconciled

Init == Boot({{}})

(***************************************************************************)
(* Connection Monitor                                                      *)
(***************************************************************************)
\* a monitor that takes the browser's word for the connection
updateConnectionStateBrowserOnly(b, r) ==
    /\ browserOnline' = b
    /\ realtimeConnected' = r
    /\ isOnline' = b
    /\ connectionChangeTimeout' = IF ~isStarted THEN connectionChangeTimeout
                                  ELSE IF b THEN "online" ELSE "offline"
    /\ debounced' = IF ~isStarted THEN debounced ELSE connectionChangeTimeout # NoTimeout

\* variant: a listener that lets a pending timer run with the state it has
updateConnectionStateKeepFirst(b, r) ==
    /\ browserOnline' = b
    /\ realtimeConnected' = r
    /\ isOnline' = (b /\ r)
    /\ connectionChangeTimeout' = IF ~isStarted \/ connectionChangeTimeout # NoTimeout
                                  THEN connectionChangeTimeout
                                  ELSE IF b /\ r THEN "online" ELSE "offline"
    /\ debounced' = IF ~isStarted THEN debounced ELSE connectionChangeTimeout # NoTimeout

\* updateConnectionState: recompute isOnline and call every listener; the
\* listener of the Outbox Processor (registered by start()) clears its
\* pending 500 ms debounce timer and sets a new one with the state it was
\* given
updateConnectionState(b, r) ==
    /\ browserOnline' = b
    /\ realtimeConnected' = r
    /\ isOnline' = (b /\ r)
    /\ connectionChangeTimeout' = IF ~isStarted THEN connectionChangeTimeout
                                  ELSE IF b /\ r THEN "online" ELSE "offline"
    /\ debounced' = IF ~isStarted THEN debounced ELSE connectionChangeTimeout # NoTimeout

handleBrowserOnline ==
    /\ updateConnectionState(TRUE, realtimeConnected)
    /\ UNCHANGED <<sideVars, syncVars, remoteOk, storeVars, histVars, loopVars, isStarted, startPc,
                   isProcessingConnectionChange, runs, opVars>>

handleBrowserOffline ==
    /\ updateConnectionState(FALSE, realtimeConnected)
    /\ UNCHANGED <<sideVars, syncVars, remoteOk, storeVars, histVars, loopVars, isStarted, startPc,
                   isProcessingConnectionChange, runs, opVars>>

handleRealtimeConnectionChange(connected) ==
    /\ updateConnectionState(browserOnline, connected)
    /\ UNCHANGED <<sideVars, syncVars, remoteOk, storeVars, histVars, loopVars, isStarted, startPc,
                   isProcessingConnectionChange, runs, opVars>>

\* the remote store starts or stops answering with success
RemoteFlip ==
    /\ remoteOk' = ~remoteOk
    /\ UNCHANGED <<sideVars, syncVars, connVars, storeVars, histVars, loopVars, svcVars, runs, opVars>>

(***************************************************************************)
(* Outbox Processor: the loop                                              *)
(***************************************************************************)
FreeRuns(rs) == {r \in RunIds : rs[r].pc = "idle"}

\* variant: processSyncQueue without the connection check
BeginRunAlways(rs) ==
    IF FreeRuns(rs) = {} THEN rs
    ELSE LET r == CHOOSE x \in FreeRuns(rs) : \A y \in FreeRuns(rs) : x <= y
         IN  [rs EXCEPT ![r] = [IdleRun EXCEPT !.pc = "read"]]

\* processSyncQueue up to its first await: offline it returns at once,
\* online it asks the Local Store for the queue
BeginRun(rs) ==
    IF ~isOnline THEN rs
    ELSE LET r == CHOOSE x \in FreeRuns(rs) : \A y \in FreeRuns(rs) : x <= y
         IN  [rs EXCEPT ![r] = [IdleRun EXCEPT !.pc = "read"]]

CanBeginRun == ~isOnline \/ FreeRuns(runs) # {}

\* variant: the loop is started without looking at isRunning
startSyncLoopUnguarded ==
    /\ isRunning' = TRUE
    /\ currentBackoffMs' = 2 * SYNC_INTERVAL_MS
    /\ consecutiveEmptyRuns' = 0
    /\ syncInterval' = TRUE
    /\ intervalMs' = currentBackoffMs'
    /\ timers' = timers + 1
    /\ runs' = IF CanBeginRun THEN BeginRun(runs) ELSE runs

\* startSyncLoop: install the interval timer and process immediately
startSyncLoop ==
    IF isRunning
    THEN UNCHANGED <<loopVars, runs>>
    ELSE /\ isRunning' = TRUE
         /\ currentBackoffMs' = 2 * SYNC_INTERVAL_MS
         /\ consecutiveEmptyRuns' = 0
         /\ syncInterval' = TRUE
         /\ intervalMs' = currentBackoffMs'
         /\ timers' = timers + 1
         /\ runs' = BeginRun(runs)

\* stopSyncLoop, as the next values of the loop variables
stopSyncLoop(c, b) ==
    /\ isRunning' = FALSE
    /\ syncInterval' = IF isRunning THEN FALSE ELSE syncInterval
    /\ intervalMs' = IF isRunning THEN 0 ELSE intervalMs
    /\ timers' = IF isRunning /\ syncInterval THEN timers - 1 ELSE timers
    /\ consecutiveEmptyRuns' = c
    /\ currentBackoffMs' = b

\* variant: the queue check never starts the loop
checkAndStartSyncIdle == UNCHANGED <<loopVars, runs>>

\* checkAndStartSync after its queue read returned
checkAndStartSyncResume ==
    IF getAllSyncQueueItems(syncQueue) # <<>>
    THEN startSyncLoop
    ELSE UNCHANGED <<loopVars, runs>>

CanResumeCheck == syncQueue = {} \/ isRunning \/ CanBeginRun

\* BackgroundSyncService.start() up to the await inside checkAndStartSync
StartService ==
    /\ startPc = "idle"
    /\ isStarted' = TRUE
    /\ startPc' = IF isRunning THEN "done" ELSE "checking"
    /\ UNCHANGED <<sideVars, syncVars, connVars, remoteOk, storeVars, histVars, loopVars,
                   connectionChangeTimeout, debounced, isProcessingConnectionChange, runs, opVars>>

StartServiceCheck ==
    /\ startPc = "checking"
    /\ CanResumeCheck
    /\ checkAndStartSyncResume
    /\ startPc' = "done"
    /\ UNCHANGED <<sideVars, syncVars, connVars, remoteOk, storeVars, histVars, isStarted,
                   connectionChangeTimeout, debounced, isProcessingConnectionChange, opVars>>

\* the debounce timer fires: handleConnectionChange(state) up to its await
handleConnectionChange ==
    /\ connectionChangeTimeout # NoTimeout
    /\ connectionChangeTimeout' = NoTimeout
    /\ debounced' = FALSE
    /\ IF isProcessingConnectionChange
       THEN UNCHANGED <<loopVars, isProcessingConnectionChange>>
       ELSE IF connectionChangeTimeout = "online" /\ isStarted /\ ~isRunning
            THEN /\ isProcessingConnectionChange' = TRUE
                 /\ UNCHANGED loopVars
            ELSE IF connectionChangeTimeout = "offline" /\ isRunning
                 THEN /\ stopSyncLoop(consecutiveEmptyRuns, currentBackoffMs)
                      /\ UNCHANGED isProcessingConnectionChange
                 ELSE UNCHANGED <<loopVars, isProcessingConnectionChange>>
    /\ UNCHANGED <<sideVars, syncVars, connVars, remoteOk, storeVars, histVars, isStarted, startPc, runs, opVars>>

\* handleConnectionChange resumes after checkAndStartSync
handleConnectionChangeResume ==
    /\ isProcessingConnectionChange
    /\ CanResumeCheck
    /\ checkAndStartSyncResume
    /\ isProcessingConnectionChange' = FALSE
    /\ UNCHANGED <<sideVars, syncVars, connVars, remoteOk, storeVars, histVars, isStarted, startPc,
                   connectionChangeTimeout, debounced, opVars>>

\* the interval timer fires
Tick ==
    /\ timers > 0
    /\ CanBeginRun
    /\ runs' = BeginRun(runs)
    /\ UNCHANGED <<sideVars, syncVars, connVars, remoteOk, storeVars, histVars, loopVars, svcVars, opVars>>

(***************************************************************************)
(* Outbox Processor: one run of processSyncQueue                           *)
(***************************************************************************)
Logged(o, res) == [e |-> o, res |-> res]

RECURSIVE Advance(_)
\* the synchronous code between two awaited sends: skip exhausted groups,
\* give up a group whose YJS_UPDATE has no data (processYjsUpdate throws),
\* stop at the next operation to send or at the final queue read
Advance(run) ==
    IF run.todo = <<>> THEN [run EXCEPT !.pc = "remaining"]
    ELSE IF Head(run.todo) = <<>> THEN Advance([run EXCEPT !.todo = Tail(@)])
    ELSE LET o == Head(Head(run.todo))
         IN  IF o.operationType = "YJS_UPDATE" /\ o.data = Null
             THEN Advance([run EXCEPT !.todo = Tail(@),
                                      !.log = Append(@, Logged(o, "nodata"))])
             ELSE [run EXCEPT !.pc = "send"]

\* variant: the empty runs are counted and the loop is never parked
handleEmptyQueueNoPark ==
    /\ consecutiveEmptyRuns' = consecutiveEmptyRuns + 1
    /\ currentBackoffMs' = IF consecutiveEmptyRuns + 1 > EMPTY_RUNS_BACKOFF
                           THEN Min((currentBackoffMs * 3) \div 2, 2 * MAX_BACKOFF_MS)
                           ELSE currentBackoffMs
    /\ UNCHANGED <<isRunning, syncInterval, intervalMs, timers>>

\* handleEmptyQueue
handleEmptyQueue ==
    LET c == consecutiveEmptyRuns + 1
        b == IF c > EMPTY_RUNS_BACKOFF
             THEN Min((currentBackoffMs * 3) \div 2, 2 * MAX_BACKOFF_MS)
             ELSE currentBackoffMs
    IN  IF c > EMPTY_RUNS_STOP /\ isRunning
        THEN stopSyncLoop(c, b)
        ELSE /\ consecutiveEmptyRuns' = c
             /\ currentBackoffMs' = b
             /\ UNCHANGED <<isRunning, syncInterval, intervalMs, timers>>

\* the queue read of processSyncQueue returned
RunRead(r) ==
    /\ runs[r].pc = "read"
    /\ LET items == getAllSyncQueueItems(syncQueue)
       IN  IF items = <<>>
           THEN /\ handleEmptyQueue
                /\ runs' = [runs EXCEPT ![r] = IdleRun]
           ELSE /\ consecutiveEmptyRuns' = 0
                /\ currentBackoffMs' = 2 * SYNC_INTERVAL_MS
                /\ UNCHANGED <<isRunning, syncInterval, intervalMs, timers>>
                /\ runs' = [runs EXCEPT ![r] =
                              Advance([pc |-> "send", snap |-> items,
                                       todo |-> PlanAll(items), log |-> <<>>])]
    /\ UNCHANGED <<sideVars, syncVars, connVars, remoteOk, storeVars, histVars, svcVars, opVars>>

\* the remote operation of an entry, by type
RemoteApply(rem, o) ==
    CASE o.operationType = "LIST_CREATE" -> [rem EXCEPT !.created = @ \cup {o.listUUID}]
      [] o.operationType = "LIST_DELETE" -> [rem EXCEPT !.deleted = @ \cup {o.listUUID}]
      [] o.operationType = "LIST_LEAVE" -> [rem EXCEPT !.left = @ \cup {o.listUUID}]
      [] OTHER -> rem

\* variant: after a failure the run goes on with the next operation of the list
RunSendGoOn(r) ==
    /\ runs[r].pc = "send"
    /\ LET o == Head(Head(runs[r].todo))
       IN  IF remoteOk
           THEN /\ remote' = RemoteApply(remote, o)
                /\ ackedIds' = ackedIds \cup {o.uuid}
                /\ runs' = [runs EXCEPT ![r] =
                              [@ EXCEPT !.pc = "remove", !.log = Append(@, Logged(o, "ok"))]]
           ELSE /\ UNCHANGED <<remote, ackedIds>>
                /\ runs' = [runs EXCEPT ![r] =
                              Advance([@ EXCEPT !.todo = <<Tail(Head(@))>> \o Tail(@),
                                                !.log = Append(@, Logged(o, "fail"))])]
    /\ UNCHANGED <<sideVars, syncVars, connVars, remoteOk, storeVars, purgedIds, wipedIds, loopVars, svcVars, opVars>>

\* variant: the entry is removed whether or not the remote call succeeded
RunSendThenRemove(r) ==
    /\ runs[r].pc = "send"
    /\ LET o == Head(Head(runs[r].todo))
       IN  /\ remote' = IF remoteOk THEN RemoteApply(remote, o) ELSE remote
           /\ ackedIds' = IF remoteOk THEN ackedIds \cup {o.uuid} ELSE ackedIds
           /\ runs' = [runs EXCEPT ![r] =
                         [@ EXCEPT !.pc = "remove",
                                   !.log = Append(@, Logged(o, IF remoteOk THEN "ok" ELSE "fail"))]]
    /\ UNCHANGED <<sideVars, syncVars, connVars, remoteOk, storeVars, purgedIds, wipedIds, loopVars, svcVars, opVars>>

\* processSyncQueueItem: the remote call of the current entry returned
RunSend(r) ==
    /\ runs[r].pc = "send"
    /\ LET o == Head(Head(runs[r].todo))
       IN  IF remoteOk
           THEN /\ remote' = RemoteApply(remote, o)
                /\ ackedIds' = ackedIds \cup {o.uuid}
                /\ runs' = [runs EXCEPT ![r] =
                              [@ EXCEPT !.pc = "remove", !.log = Append(@, Logged(o, "ok"))]]
           ELSE /\ UNCHANGED <<remote, ackedIds>>
                /\ runs' = [runs EXCEPT ![r] =
                              Advance([@ EXCEPT !.todo = Tail(@),
                                                !.log = Append(@, Logged(o, "fail"))])]
    /\ UNCHANGED <<sideVars, syncVars, connVars, remoteOk, storeVars, purgedIds, wipedIds, loopVars, svcVars, opVars>>

\* removeSyncQueueItem of the entry just sent returned
RunRemove(r) ==
    /\ runs[r].pc = "remove"
    /\ LET o == Head(Head(runs[r].todo))
       IN  /\ syncQueue' = deleteSyncQueueItem(syncQueue, o.uuid)
           /\ runs' = [runs EXCEPT ![r] =
                         Advance([@ EXCEPT !.todo = <<Tail(Head(@))>> \o Tail(@)])]
    /\ UNCHANGED <<sideVars, syncVars, connVars, remoteOk, docs, lists, usedIds, usedLists, histVars,
                   loopVars, svcVars, opVars>>

\* variant: the run ends without looking at what is left in the queue
RunRemainingKeep(r) ==
    /\ runs[r].pc = "remaining"
    /\ runs' = [runs EXCEPT ![r] = IdleRun]
    /\ UNCHANGED <<sideVars, syncVars, connVars, remoteOk, storeVars, histVars, loopVars, svcVars, opVars>>

\* the final queue read of processSyncQueue returned
RunRemaining(r) ==
    /\ runs[r].pc = "remaining"
    /\ IF getAllSyncQueueItems(syncQueue) = <<>> /\ isRunning
       THEN stopSyncLoop(consecutiveEmptyRuns, currentBackoffMs)
       ELSE UNCHANGED loopVars
    /\ runs' = [runs EXCEPT ![r] = IdleRun]
    /\ UNCHANGED <<sideVars, syncVars, connVars, remoteOk, storeVars, histVars, svcVars, opVars>>

(***************************************************************************)
(* Sync Coordinator (ListController): the mutating public operations       *)
(***************************************************************************)
\* an operation can be started; one more may start while another one awaits
OpFree == op.pc = "idle" /\ opCount < MaxOps + Len(suspended)

FreeIds == UUIDs \ usedIds

ItemIdsOf(d) == {d.items[i].id : i \in 1..Len(d.items)}

NewIndexes == -1..MaxItems

Finish(o) == [o EXCEPT !.pc = "done"]

Publish(o) == [o EXCEPT !.pc = "done", !.published = TRUE]

StartOp(kind, L) == [IdleOp EXCEPT !.kind = kind, !.list = L]

\* the document after the YjsListManager call of an item operation
MutateItem(kind, d, itemId, text, newIndex) ==
    CASE kind = "addItem" -> YjsAddItem(d, itemId, text)
      [] kind = "editItem" -> YjsEditItem(d, itemId, text)
      [] kind = "deleteItem" -> YjsDeleteItem(d, itemId)
      [] kind = "toggleItem" -> YjsToggleItem(d, itemId)
      [] kind = "moveItem" -> YjsMoveItem(d, itemId, newIndex)

\* moveItem was asked to put an item where it already is
NoOpMove(kind, d, itemId, newIndex) ==
    /\ kind = "moveItem"
    /\ IndexOfItem(d.items, itemId) # -1
    /\ IndexOfItem(d.items, itemId) = Max(0, Min(newIndex, Len(d.items) - 1))

\* history: the item moveItem was asked to move and the index asked for,
\* clamped to the list; none when the item is not in the list
MoveRequest(kind, d, itemId, newIndex) ==
    IF kind = "moveItem" /\ IndexOfItem(d.items, itemId) # -1
    THEN <<itemId, Max(0, Min(newIndex, Len(d.items) - 1))>>
    ELSE <<>>

\* addItem, editItem, deleteItem, toggleItem, moveItem up to the await of saveList
BeginItemOp(kind, L, itemId, text, newIndex) ==
    /\ OpFree
    /\ opCount' = opCount + 1
    /\ FreeIds # {}
    /\ kind \in ItemKinds
    /\ IF docs[L] = NoDoc
       THEN /\ op' = IF kind = "addItem"
                     THEN [Finish(StartOp(kind, L)) EXCEPT !.rejected = TRUE]
                     ELSE [Publish(StartOp(kind, L)) EXCEPT !.absent = TRUE]
            /\ UNCHANGED docs
       ELSE /\ kind = "addItem" => itemId \notin ItemIdsOf(docs[L][1])
            /\ docs' = [docs EXCEPT ![L] = <<MutateItem(kind, @[1], itemId, text, newIndex)>>]
            /\ op' = [StartOp(kind, L) EXCEPT !.pc = "save",
                                              !.yjsState = getYjsState(docs', L),
                                              !.noop = NoOpMove(kind, docs[L][1], itemId, newIndex),
                                              !.moved = MoveRequest(kind, docs[L][1], itemId, newIndex),
                                              !.absent = /\ kind # "addItem"
                                                         /\ itemId \notin ItemIdsOf(docs[L][1])]
    /\ UNCHANGED <<sideVars, syncVars, connVars, remoteOk, lists, syncQueue, usedIds, usedLists, histVars,
                   loopVars, svcVars, runs>>

\* editListMetadata (a title) and clearCompletedItems up to their first await
BeginAlwaysQueueOp(kind, L, text) ==
    /\ OpFree
    /\ opCount' = opCount + 1
    /\ FreeIds # {}
    /\ kind \in AlwaysQueueKinds
    /\ docs' = IF docs[L] = NoDoc THEN docs
               ELSE [docs EXCEPT ![L] = IF kind = "editListMetadata"
                                        THEN <<YjsEditListTitle(@[1], text)>>
                                        ELSE <<YjsClearCompletedItems(@[1])>>]
    /\ op' = [StartOp(kind, L) EXCEPT
                 !.pc = IF docs[L] = NoDoc THEN "enqueue" ELSE "save",
                 !.yjsState = getYjsState(docs', L)]
    /\ UNCHANGED <<sideVars, syncVars, connVars, remoteOk, lists, syncQueue, usedIds, usedLists, histVars,
                   loopVars, svcVars, runs>>

\* deleteList and leaveList up to the await of listRepository.deleteList
BeginRemoveOp(kind, L) ==
    /\ OpFree
    /\ opCount' = opCount + 1
    /\ FreeIds # {}
    /\ kind \in RemoveKinds
    /\ docs' = YjsDeleteList(docs, L)
    /\ op' = [StartOp(kind, L) EXCEPT !.pc = "repoDelete"]
    /\ UNCHANGED <<sideVars, syncVars, connVars, remoteOk, lists, syncQueue, usedIds, usedLists, histVars,
                   loopVars, svcVars, runs>>

\* handleRemoteListDeletion (the list was deleted by another client) up to
\* the await of listRepository.deleteList
BeginRemoteDeletion(L) ==
    /\ OpFree
    /\ opCount' = opCount + 1
    /\ docs' = YjsDeleteList(docs, L)
    /\ op' = [StartOp("handleRemoteListDeletion", L) EXCEPT !.pc = "repoDelete"]
    /\ UNCHANGED <<sideVars, syncVars, connVars, remoteOk, lists, syncQueue, usedIds, usedLists, histVars,
                   loopVars, svcVars, runs>>

\* createList up to the await of saveList
BeginCreateList(L, title) ==
    /\ OpFree
    /\ opCount' = opCount + 1
    /\ Cardinality(FreeIds) >= 2
    /\ L \notin usedLists
    /\ usedLists' = usedLists \cup {L}
    /\ docs' = YjsCreateList(docs, L, title)
    /\ op' = [StartOp("createList", L) EXCEPT !.pc = "save",
                                             !.yjsState = getYjsState(docs', L)]
    /\ UNCHANGED <<sideVars, syncVars, connVars, remoteOk, lists, syncQueue, usedIds, histVars,
                   loopVars, svcVars, runs>>

\* variant: the remote attempt is made whatever the Connection Monitor reports
AfterLocalPushAnyway(o) ==
    [o EXCEPT !.online = IF isOnline THEN "online" ELSE "offline",
              !.pc = IF o.kind = "createList" THEN "remoteCreate" ELSE "push"]

\* where an operation goes once its local writes are done: the immediate
\* remote attempt when the Connection Monitor reports online, the queue otherwise
AfterLocal(o) ==
    IF o.kind \in AlwaysQueueKinds THEN [o EXCEPT !.pc = "enqueue"]
    ELSE IF isOnline
         THEN [o EXCEPT !.online = "online",
                        !.pc = IF o.kind = "createList" THEN "remoteCreate" ELSE "push"]
         ELSE [o EXCEPT !.online = "offline",
                        !.pc = IF o.kind = "createList" THEN "enqueueCreate" ELSE "enqueue"]

\* listRepository.saveList returned
OpSave ==
    /\ op.pc = "save"
    /\ lists' = [lists EXCEPT ![op.list] = op.yjsState]
    /\ op' = AfterLocal([op EXCEPT !.saved = TRUE])
    /\ UNCHANGED <<sideVars, syncVars, connVars, remoteOk, docs, syncQueue, usedIds, usedLists, histVars,
                   loopVars, svcVars, runs, opCount>>

\* listRepository.deleteList returned; clearSyncQueueItemsForList asks for the queue
OpRepoDelete ==
    /\ op.pc = "repoDelete"
    /\ lists' = [lists EXCEPT ![op.list] = Null]
    /\ op' = [op EXCEPT !.pc = "purgeRead"]
    /\ UNCHANGED <<sideVars, syncVars, connVars, remoteOk, docs, syncQueue, usedIds, usedLists, histVars,
                   loopVars, svcVars, runs, opCount>>

AfterPurge(o) ==
    IF o.kind \in {"leaveList", "handleRemoteListDeletion"}
    THEN [o EXCEPT !.pc = "clearMeta"]
    ELSE AfterLocal(o)

\* clearSyncMetadataForDocument: the three deleteMetadata calls
clearSyncMetadataForDocument(md, L) == [md EXCEPT ![L] = NoSyncMetadata]

RECURSIVE UuidsOf(_)
UuidsOf(s) == IF s = <<>> THEN <<>> ELSE <<Head(s).uuid>> \o UuidsOf(Tail(s))

\* a deleteList that keeps the queued entries of the list
OpPurgeSkip ==
    /\ op.pc = "purgeRead"
    /\ op' = AfterPurge(op)
    /\ UNCHANGED <<sideVars, syncVars, connVars, remoteOk, storeVars, histVars, loopVars, svcVars, runs, opCount>>

\* clearSyncQueueItemsForList: the queue read returned
OpPurgeRead ==
    /\ op.pc = "purgeRead"
    /\ LET itemsForList == UuidsOf(getSyncQueueItemsForList(syncQueue, op.list))
       IN  op' = IF itemsForList = <<>> THEN AfterPurge(op)
                 ELSE [op EXCEPT !.pc = "purgeDelete", !.purge = itemsForList]
    /\ UNCHANGED <<sideVars, syncVars, connVars, remoteOk, storeVars, histVars, loopVars, svcVars, runs, opCount>>

\* clearSyncQueueItemsForList: one deleteSyncQueueItem returned
OpPurgeDelete ==
    /\ op.pc = "purgeDelete"
    /\ syncQueue' = deleteSyncQueueItem(syncQueue, Head(op.purge))
    /\ purgedIds' = purgedIds \cup (QueueIds(syncQueue) \cap {Head(op.purge)})
    /\ op' = IF Tail(op.purge) = <<>> THEN AfterPurge([op EXCEPT !.purge = <<>>])
             ELSE [op EXCEPT !.purge = Tail(@)]
    /\ UNCHANGED <<sideVars, syncVars, connVars, remoteOk, docs, lists, usedIds, usedLists, remote, ackedIds, wipedIds,
                   loopVars, svcVars, runs, opCount>>

\* leaveList and handleRemoteListDeletion: clearSyncMetadataForDocument
\* returned; the handler of a remote deletion publishes its event
OpClearMeta ==
    /\ op.pc = "clearMeta"
    /\ metadata' = clearSyncMetadataForDocument(metadata, op.list)
    /\ op' = IF op.kind = "handleRemoteListDeletion" THEN Publish(op) ELSE AfterLocal(op)
    /\ UNCHANGED <<sideVars, reconVars, connVars, remoteOk, storeVars, histVars, loopVars, svcVars, runs, opCount>>

\* createList: remoteStorageService.createList returned
OpRemoteCreate ==
    /\ op.pc = "remoteCreate"
    /\ IF remoteOk
       THEN /\ remote' = [remote EXCEPT !.created = @ \cup {op.list}]
            /\ op' = [op EXCEPT !.pc = "push", !.calls = @ + 1]
       ELSE /\ UNCHANGED remote
            /\ op' = [op EXCEPT !.pc = "enqueueCreate", !.calls = @ + 1]
    /\ UNCHANGED <<sideVars, syncVars, connVars, remoteOk, storeVars, ackedIds, purgedIds, wipedIds, loopVars, svcVars, runs, opCount>>

\* variant: a successful immediate push is followed by the enqueue all the same
OpPushThenEnqueue ==
    /\ op.pc = "push"
    /\ op' = [op EXCEPT !.calls = @ + 1, !.pushed = remoteOk, !.pc = "enqueue"]
    /\ UNCHANGED <<sideVars, syncVars, connVars, remoteOk, storeVars, histVars, loopVars, svcVars, runs, opCount>>

\* the immediate remote call returned: pushUpdate, deleteList or removeParticipant
OpPush ==
    /\ op.pc = "push"
    /\ IF remoteOk
       THEN /\ remote' = CASE op.kind = "deleteList" -> [remote EXCEPT !.deleted = @ \cup {op.list}]
                           [] op.kind = "leaveList" -> [remote EXCEPT !.left = @ \cup {op.list}]
                           [] OTHER -> remote
            /\ op' = Publish([op EXCEPT !.calls = @ + 1, !.pushed = TRUE])
       ELSE /\ UNCHANGED remote
            /\ op' = [op EXCEPT !.calls = @ + 1,
                                !.pc = IF op.kind = "createList" THEN "enqueueCreate"
                                       ELSE "enqueue"]
    /\ UNCHANGED <<sideVars, syncVars, connVars, remoteOk, storeVars, ackedIds, purgedIds, wipedIds, loopVars, svcVars, runs, opCount>>

\* addSyncQueueItem: append one row under a fresh uuid
addSyncQueueItem(u, L, type, data, date) ==
    /\ u \in FreeIds
    /\ syncQueue' = syncQueue \cup {NewEntry(u, L, type, data, date)}
    /\ usedIds' = usedIds \cup {u}

\* createList: addListCreateItem returned
OpEnqueueCreate(u, date) ==
    /\ op.pc = "enqueueCreate"
    /\ addSyncQueueItem(u, op.list, "LIST_CREATE", Null, date)
    /\ op' = [op EXCEPT !.pc = "enqueue", !.enq = @ + 1]
    /\ UNCHANGED <<sideVars, syncVars, connVars, remoteOk, docs, lists, usedLists, histVars,
                   loopVars, svcVars, runs, opCount>>

EntryTypeOf(kind) ==
    CASE kind = "deleteList" -> "LIST_DELETE"
      [] kind = "leaveList" -> "LIST_LEAVE"
      [] OTHER -> "YJS_UPDATE"

\* variant: the entry is appended and the operation returns at once
OpEnqueueOnly(u, date) ==
    /\ op.pc = "enqueue"
    /\ addSyncQueueItem(u, op.list, EntryTypeOf(op.kind),
                        IF op.kind \in RemoveKinds THEN Null ELSE op.yjsState, date)
    /\ op' = Finish([op EXCEPT !.enq = @ + 1])
    /\ UNCHANGED <<sideVars, syncVars, connVars, remoteOk, docs, lists, usedLists, histVars,
                   loopVars, svcVars, runs, opCount>>

\* addYjsUpdateItem, addListDeleteItem or addListLeaveItem returned;
\* triggerBackgroundSync awaits its import
OpEnqueue(u, date) ==
    /\ op.pc = "enqueue"
    /\ addSyncQueueItem(u, op.list, EntryTypeOf(op.kind),
                        IF op.kind \in RemoveKinds THEN Null ELSE op.yjsState, date)
    /\ op' = [op EXCEPT !.pc = "trigger", !.enq = @ + 1, !.triggered = TRUE,
                         !.entry = <<u>>]
    /\ UNCHANGED <<sideVars, syncVars, connVars, remoteOk, docs, lists, usedLists, histVars,
                   loopVars, svcVars, runs, opCount>>

\* triggerBackgroundSync: isServiceStarted, then triggerSync up to the await
\* inside checkAndStartSync
OpTrigger ==
    /\ op.pc = "trigger"
    /\ op' = IF ~isStarted THEN Publish(op)
             ELSE IF ~isOnline \/ isRunning THEN Publish([op EXCEPT !.woke = TRUE])
             ELSE [op EXCEPT !.woke = TRUE, !.pc = "check"]
    /\ UNCHANGED <<sideVars, syncVars, connVars, remoteOk, storeVars, histVars, loopVars, svcVars, runs, opCount>>

\* triggerSync resumes after checkAndStartSync; the operation publishes its event
OpCheck ==
    /\ op.pc = "check"
    /\ CanResumeCheck
    /\ checkAndStartSyncResume
    /\ op' = Publish(op)
    /\ UNCHANGED <<sideVars, syncVars, connVars, remoteOk, storeVars, histVars, svcVars, opCount>>

\* the promise the operation returned settles
OpReturn ==
    /\ op.pc = "done"
    /\ op' = IdleOp
    /\ UNCHANGED <<sideVars, syncVars, connVars, remoteOk, storeVars, histVars, loopVars, svcVars, runs, opCount>>

\* clearAllData (sign out) up to the await of clearAllLists
BeginClearAllData ==
    /\ OpFree
    /\ opCount' = opCount + 1
    /\ docs' = [L \in Lists |-> NoDoc]
    /\ op' = [StartOp("clearAllData", "none") EXCEPT !.pc = "wipeLists"]
    /\ UNCHANGED <<sideVars, syncVars, connVars, remoteOk, lists, syncQueue, usedIds, usedLists, histVars,
                   loopVars, svcVars, runs>>

\* clearAllLists returned
OpWipeLists ==
    /\ op.pc = "wipeLists"
    /\ lists' = [L \in Lists |-> Null]
    /\ op' = [op EXCEPT !.pc = "wipeQueue"]
    /\ UNCHANGED <<sideVars, syncVars, connVars, remoteOk, docs, syncQueue, usedIds, usedLists, histVars,
                   loopVars, svcVars, runs, opCount>>

\* clearAllSyncQueueItems returned; clearAllMetadata follows and the promise settles
OpWipeQueue ==
    /\ op.pc = "wipeQueue"
    /\ syncQueue' = {}
    /\ wipedIds' = wipedIds \cup QueueIds(syncQueue)
    /\ metadata' = [L \in Lists |-> NoSyncMetadata]
    /\ op' = Finish(op)
    /\ UNCHANGED <<sideVars, reconVars, connVars, remoteOk, docs, lists, usedIds, usedLists, remote, ackedIds,
                   purgedIds, loopVars, svcVars, runs, opCount>>

(***************************************************************************)
(* Remote store: the lists of the user and the table crdt_updates.  A row  *)
(* carries the full state of the replica that pushed it.                   *)
(***************************************************************************)
\* new Date(created_at): the instant cut to whole milliseconds
NewDate(t) == t - (t % TicksPerMs)

Row(i, L, c, t, data) ==
    [id |-> i, yjs_document_id |-> L, client_id |-> c, created_at |-> t, update_data |-> data]

RECURSIVE RowsByTime(_)
\* order('created_at', ascending); rows of one instant in insertion order
RowsByTime(rows) ==
    IF rows = {} THEN <<>>
    ELSE LET r == CHOOSE x \in rows : \A y \in rows :
                      \/ x.created_at < y.created_at
                      \/ x.created_at = y.created_at /\ x.id <= y.id
         IN  <<r>> \o RowsByTime(rows \ {r})

\* pullUpdates(yjsDocumentId, since, excludeClientId)
pullUpdates(rows, L, since, excludeClientId) ==
    RowsByTime({r \in rows : /\ r.yjs_document_id = L
                             /\ since # Null => r.created_at > since[1]
                             /\ r.client_id # excludeClientId})

RECURSIVE KeepLists(_, _)
KeepLists(s, S) ==
    IF s = <<>> THEN <<>>
    ELSE IF Head(s) \in S THEN <<Head(s)>> \o KeepLists(Tail(s), S)
         ELSE KeepLists(Tail(s), S)

\* getUserLists: the lists the user owns or takes part in, not deleted
getUserLists(rem) == KeepLists(<<"L1", "L2">>, rem.created \ (rem.deleted \cup rem.left))

(***************************************************************************)
(* Document Model: applying the state of another replica                   *)
(***************************************************************************)
RECURSIVE MissingItems(_, _)
MissingItems(items, held) ==
    IF items = <<>> THEN <<>>
    ELSE IF Head(items).id \in held THEN MissingItems(Tail(items), held)
         ELSE <<Head(items)>> \o MissingItems(Tail(items), held)

\* applyYjsUpdate: a Y.Doc is created when none is held; Y.applyUpdate with the
\* state of a replica that has inserted items integrates the items the
\* document does not hold
applyYjsUpdate(ds, L, update) ==
    LET d == IF ds[L] = NoDoc THEN [title |-> update.title, items |-> <<>>] ELSE ds[L][1]
    IN  [ds EXCEPT ![L] =
            <<[d EXCEPT !.items = @ \o MissingItems(update.items, ItemIdsOf(d))]>>]

RECURSIVE ApplyAll(_, _, _)
\* for (const update of updates) applyYjsUpdate(listId, update.data)
ApplyAll(ds, L, updates) ==
    IF updates = <<>> THEN ds
    ELSE ApplyAll(applyYjsUpdate(ds, L, Head(updates).update_data), L, Tail(updates))

Event(type, L) == [type |-> type, listId |-> L]

\* setLastSyncTimestamp
setLastSyncTimestamp(md, L, timestamp) == [md EXCEPT ![L].last_sync = <<timestamp>>]

\* getLastSyncTimestamp
getLastSyncTimestamp(md, L) == md[L].last_sync

(***************************************************************************)
(* Remote Update Listener: the CRDT update callback of RemoteUpdateHandler *)
(***************************************************************************)
\* a realtime notification of a row arrives; the callback awaits getClientId
ReceiveUpdate(row) ==
    /\ inbound.pc = "idle"
    /\ inboundCount < MaxInbound
    /\ row \in crdtUpdates
    /\ inbound' = [IdleInbound EXCEPT !.pc = "clientId", !.record = <<row>>]
    /\ inboundCount' = inboundCount + 1
    /\ UNCHANGED <<sideVars, connVars, remoteOk, storeVars, histVars, loopVars, svcVars, runs, opVars,
                   metadata, remoteEvents, isBootstrapping, boots, crdtUpdates, replicas>>

\* variant: the callback applies every row, whoever pushed it
InboundApplyAny ==
    /\ inbound.pc = "clientId"
    /\ LET record == inbound.record[1]
       IN  /\ docs' = applyYjsUpdate(docs, record.yjs_document_id, record.update_data)
           /\ inbound' = [inbound EXCEPT !.pc = "save",
                             !.yjsState = getYjsState(docs', record.yjs_document_id)]
    /\ UNCHANGED <<sideVars, connVars, remoteOk, lists, syncQueue, usedIds, usedLists, histVars, loopVars,
                   svcVars, runs, opVars, metadata, remoteEvents, isBootstrapping, boots,
                   inboundCount, crdtUpdates, replicas>>

\* bytes that Y.applyUpdate cannot decode
Malformed == [malformed |-> TRUE]

Decodes(update) == "items" \in DOMAIN update

\* applyYjsUpdate with bytes that do not decode: the Y.Doc of a list that is
\* not held has been created and stored when Y.applyUpdate throws
applyYjsUpdateThrows(ds, L) ==
    IF ds[L] = NoDoc THEN [ds EXCEPT ![L] = <<NewDoc("Untitled List")>>] ELSE ds

\* variant: bytes that do not decode are taken for an empty update
InboundApplyLenient ==
    /\ inbound.pc = "clientId"
    /\ LET record == inbound.record[1]
       IN  IF record.client_id = OurClientId
           THEN /\ inbound' = [inbound EXCEPT !.pc = "idle", !.outcome = "ignored"]
                /\ UNCHANGED docs
           ELSE /\ docs' = IF Decodes(record.update_data)
                           THEN applyYjsUpdate(docs, record.yjs_document_id, record.update_data)
                           ELSE applyYjsUpdateThrows(docs, record.yjs_document_id)
                /\ inbound' = [inbound EXCEPT !.pc = "save",
                                  !.yjsState = getYjsState(docs', record.yjs_document_id)]
    /\ UNCHANGED <<sideVars, connVars, remoteOk, lists, syncQueue, usedIds, usedLists, histVars, loopVars,
                   svcVars, runs, opVars, metadata, remoteEvents, isBootstrapping, boots,
                   inboundCount, crdtUpdates, replicas>>

\* getClientId returned: a row of this client is ignored, another one is
\* applied to the document by applyRemoteUpdate, which awaits saveList; when
\* the bytes do not decode applyRemoteUpdate rethrows and the callback
\* catches and logs
InboundApply ==
    /\ inbound.pc = "clientId"
    /\ LET record == inbound.record[1]
       IN  IF record.client_id = OurClientId
           THEN /\ inbound' = [inbound EXCEPT !.pc = "idle", !.outcome = "ignored"]
                /\ UNCHANGED docs
           ELSE IF ~Decodes(record.update_data)
           THEN /\ docs' = applyYjsUpdateThrows(docs, record.yjs_document_id)
                /\ inbound' = [inbound EXCEPT !.pc = "idle", !.outcome = "failed"]
           ELSE /\ docs' = applyYjsUpdate(docs, record.yjs_document_id, record.update_data)
                /\ inbound' = [inbound EXCEPT !.pc = "save",
                                  !.yjsState = getYjsState(docs', record.yjs_document_id)]
    /\ UNCHANGED <<sideVars, connVars, remoteOk, lists, syncQueue, usedIds, usedLists, histVars, loopVars,
                   svcVars, runs, opVars, metadata, remoteEvents, isBootstrapping, boots,
                   inboundCount, crdtUpdates, replicas>>

\* applyRemoteUpdate: saveList returned; the event is published and
\* setLastSyncTimestamp awaited
InboundSave ==
    /\ inbound.pc = "save"
    /\ LET record == inbound.record[1]
       IN  /\ lists' = [lists EXCEPT ![record.yjs_document_id] = inbound.yjsState]
           /\ remoteEvents' = Append(remoteEvents,
                                     Event("LIST_METADATA_CHANGED", record.yjs_document_id))
    /\ inbound' = [inbound EXCEPT !.pc = "mark"]
    /\ UNCHANGED <<sideVars, connVars, remoteOk, docs, syncQueue, usedIds, usedLists, histVars, loopVars,
                   svcVars, runs, opVars, metadata, isBootstrapping, boots, inboundCount,
                   crdtUpdates, replicas>>

\* variant: the watermark is left as it was
InboundMarkSkip ==
    /\ inbound.pc = "mark"
    /\ inbound' = [inbound EXCEPT !.pc = "idle", !.yjsState = Null, !.outcome = "applied"]
    /\ UNCHANGED <<sideVars, connVars, remoteOk, storeVars, histVars, loopVars, svcVars, runs, opVars,
                   metadata, remoteEvents, isBootstrapping, boots, inboundCount, crdtUpdates, replicas>>

\* applyRemoteUpdate: setLastSyncTimestamp returned
InboundMark ==
    /\ inbound.pc = "mark"
    /\ LET record == inbound.record[1]
       IN  metadata' = setLastSyncTimestamp(metadata, record.yjs_document_id,
                                            NewDate(record.created_at))
    /\ inbound' = [inbound EXCEPT !.pc = "idle", !.yjsState = Null, !.outcome = "applied"]
    /\ UNCHANGED <<sideVars, connVars, remoteOk, storeVars, histVars, loopVars, svcVars, runs, opVars,
                   remoteEvents, isBootstrapping, boots, inboundCount, crdtUpdates, replicas>>

(***************************************************************************)
(* Reconciliation: bootstrapFromRemote                                     *)
(***************************************************************************)
\* the pass goes on inside the loop body of its current remote list
BootStay(b, bt, evs) ==
    /\ boots' = [boots EXCEPT ![b] = bt]
    /\ remoteEvents' = evs
    /\ UNCHANGED isBootstrapping

\* the pass is over: BOOTSTRAP_COMPLETED is published, finally clears the flag
BootComplete(b, bt, evs) ==
    /\ boots' = [boots EXCEPT ![b] = [bt EXCEPT !.pc = "done", !.todo = <<>>,
                                                !.outcome = "completed",
                                                !.published = @ + 1]]
    /\ remoteEvents' = Append(evs, Event("BOOTSTRAP_COMPLETED", "all"))
    /\ isBootstrapping' = FALSE

\* the loop body of the current remote list is over
BootAdvance(b, bt, evs) ==
    IF Tail(bt.todo) = <<>>
    THEN BootComplete(b, bt, evs)
    ELSE BootStay(b, [bt EXCEPT !.pc = "exists", !.todo = Tail(@), !.existing = FALSE,
                                !.since = Null, !.updates = <<>>, !.yjsState = Null], evs)

\* a list absent locally, after its pull: save the state of the document if
\* one is held, publish LIST_CREATED
BootNewList(b, bt, ds) ==
    LET L == Head(bt.todo)
    IN  IF getYjsState(ds, L) = Null
        THEN BootAdvance(b, [bt EXCEPT !.published = @ + 1],
                         Append(remoteEvents, Event("LIST_CREATED", L)))
        ELSE BootStay(b, [bt EXCEPT !.pc = "save", !.yjsState = getYjsState(ds, L)],
                      remoteEvents)

\* variant: the call starts a pass whether or not one is in flight
BeginBootstrapUnguarded(b) ==
    /\ boots[b].pc = "idle"
    /\ \A c \in BootIds : c < b => boots[c].pc # "idle"
    /\ IF ~browserOnline
       THEN /\ boots' = [boots EXCEPT ![b] = [@ EXCEPT !.pc = "done", !.outcome = "offline"]]
            /\ isBootstrapping' = FALSE
       ELSE /\ boots' = [boots EXCEPT ![b] = [@ EXCEPT !.pc = "fetch"]]
            /\ isBootstrapping' = TRUE
    /\ UNCHANGED <<sideVars, connVars, remoteOk, storeVars, histVars, loopVars, svcVars, runs, opVars,
                   metadata, remoteEvents, inbound, inboundCount, crdtUpdates, replicas>>

\* bootstrapFromRemote up to the await of getUserLists
BeginBootstrap(b) ==
    /\ boots[b].pc = "idle"
    /\ \A c \in BootIds : c < b => boots[c].pc # "idle"
    /\ IF isBootstrapping
       THEN /\ boots' = [boots EXCEPT ![b] = [@ EXCEPT !.pc = "done", !.outcome = "skipped"]]
            /\ UNCHANGED isBootstrapping
       ELSE IF ~browserOnline
            THEN /\ boots' = [boots EXCEPT ![b] = [@ EXCEPT !.pc = "done", !.outcome = "offline"]]
                 /\ isBootstrapping' = FALSE
            ELSE /\ boots' = [boots EXCEPT ![b] = [@ EXCEPT !.pc = "fetch"]]
                 /\ isBootstrapping' = TRUE
    /\ UNCHANGED <<sideVars, connVars, remoteOk, storeVars, histVars, loopVars, svcVars, runs, opVars,
                   metadata, remoteEvents, inbound, inboundCount, crdtUpdates, replicas>>

\* variant: a rejection of getUserLists leaves the method without finally
BootFetchNoFinally(b) ==
    /\ boots[b].pc = "fetch"
    /\ LET bt == [boots[b] EXCEPT !.calls = @ + 1]
       IN  IF ~remoteOk
           THEN /\ boots' = [boots EXCEPT ![b] = [bt EXCEPT !.pc = "done", !.outcome = "rejected"]]
                /\ UNCHANGED <<isBootstrapping, remoteEvents>>
           ELSE IF getUserLists(remote) = <<>>
                THEN BootComplete(b, bt, remoteEvents)
                ELSE BootStay(b, [bt EXCEPT !.pc = "exists", !.todo = getUserLists(remote)],
                              remoteEvents)
    /\ UNCHANGED <<sideVars, connVars, remoteOk, storeVars, histVars, loopVars, svcVars, runs, opVars,
                   metadata, inbound, inboundCount, crdtUpdates, replicas>>

\* getUserLists returned, or threw; the first getList is awaited
BootFetch(b) ==
    /\ boots[b].pc = "fetch"
    /\ LET bt == [boots[b] EXCEPT !.calls = @ + 1]
       IN  IF ~remoteOk
           THEN /\ boots' = [boots EXCEPT ![b] = [bt EXCEPT !.pc = "done", !.outcome = "rejected"]]
                /\ isBootstrapping' = FALSE
                /\ UNCHANGED remoteEvents
           ELSE IF getUserLists(remote) = <<>>
                THEN BootComplete(b, bt, remoteEvents)
                ELSE BootStay(b, [bt EXCEPT !.pc = "exists", !.todo = getUserLists(remote)],
                              remoteEvents)
    /\ UNCHANGED <<sideVars, connVars, remoteOk, storeVars, histVars, loopVars, svcVars, runs, opVars,
                   metadata, inbound, inboundCount, crdtUpdates, replicas>>

\* listRepository.getList of the current remote list returned
BootExists(b) ==
    /\ boots[b].pc = "exists"
    /\ boots' = [boots EXCEPT ![b] = [@ EXCEPT !.pc = "since",
                                              !.existing = (lists[Head(boots[b].todo)] # Null)]]
    /\ UNCHANGED <<sideVars, connVars, remoteOk, storeVars, histVars, loopVars, svcVars, runs, opVars,
                   metadata, remoteEvents, isBootstrapping, inbound, inboundCount, crdtUpdates,
                   replicas>>

\* getClientId and getLastSyncTimestamp returned; pullUpdates is awaited
BootSince(b) ==
    /\ boots[b].pc = "since"
    /\ boots' = [boots EXCEPT ![b] = [@ EXCEPT !.pc = "pull",
                                              !.since = getLastSyncTimestamp(metadata,
                                                                             Head(boots[b].todo))]]
    /\ UNCHANGED <<sideVars, connVars, remoteOk, storeVars, histVars, loopVars, svcVars, runs, opVars,
                   metadata, remoteEvents, isBootstrapping, inbound, inboundCount, crdtUpdates,
                   replicas>>

\* variant: the pull asks for every row of the list
BootPullAll(b) ==
    /\ boots[b].pc = "pull"
    /\ LET L == Head(boots[b].todo)
           bt == [boots[b] EXCEPT !.calls = @ + 1]
           updates == pullUpdates(crdtUpdates, L, Null, "none")
           took == [bt EXCEPT !.updates = updates, !.applied = @ \o updates]
       IN  IF ~remoteOk
           THEN /\ UNCHANGED docs
                /\ IF bt.existing THEN BootAdvance(b, bt, remoteEvents)
                   ELSE BootNewList(b, bt, docs)
           ELSE IF updates # <<>>
                THEN /\ docs' = ApplyAll(docs, L, updates)
                     /\ IF bt.existing
                        THEN BootStay(b, [took EXCEPT !.pc = "save",
                                                      !.yjsState = getYjsState(docs', L)],
                                      remoteEvents)
                        ELSE BootStay(b, [took EXCEPT !.pc = "mark"], remoteEvents)
                ELSE IF bt.existing
                     THEN /\ UNCHANGED docs
                          /\ BootAdvance(b, bt, remoteEvents)
                     ELSE /\ docs' = YjsCreateList(docs, L, "Untitled List")
                          /\ BootNewList(b, bt, docs')
    /\ UNCHANGED <<sideVars, connVars, remoteOk, lists, syncQueue, usedIds, usedLists, histVars, loopVars,
                   svcVars, runs, opVars, metadata, inbound, inboundCount, crdtUpdates, replicas>>

\* pullUpdates returned, or threw: the rows are applied to the document in
\* the order returned; a list absent locally with no row gets a document
\* made from the remote metadata
BootPull(b) ==
    /\ boots[b].pc = "pull"
    /\ LET L == Head(boots[b].todo)
           bt == [boots[b] EXCEPT !.calls = @ + 1]
           updates == pullUpdates(crdtUpdates, L, bt.since, OurClientId)
           took == [bt EXCEPT !.updates = updates, !.applied = @ \o updates]
       IN  IF ~remoteOk
           THEN /\ UNCHANGED docs
                /\ IF bt.existing THEN BootAdvance(b, bt, remoteEvents)
                   ELSE BootNewList(b, bt, docs)
           ELSE IF updates # <<>>
                THEN /\ docs' = ApplyAll(docs, L, updates)
                     /\ IF bt.existing
                        THEN BootStay(b, [took EXCEPT !.pc = "save",
                                                      !.yjsState = getYjsState(docs', L)],
                                      remoteEvents)
                        ELSE BootStay(b, [took EXCEPT !.pc = "mark"], remoteEvents)
                ELSE IF bt.existing
                     THEN /\ UNCHANGED docs
                          /\ BootAdvance(b, bt, remoteEvents)
                     ELSE /\ docs' = YjsCreateList(docs, L, "Untitled List")
                          /\ BootNewList(b, bt, docs')
    /\ UNCHANGED <<sideVars, connVars, remoteOk, lists, syncQueue, usedIds, usedLists, histVars, loopVars,
                   svcVars, runs, opVars, metadata, inbound, inboundCount, crdtUpdates, replicas>>

\* listRepository.saveList returned: the event of the list is published; an
\* existing list then awaits setLastSyncTimestamp
BootSave(b) ==
    /\ boots[b].pc = "save"
    /\ LET L == Head(boots[b].todo)
           bt == [boots[b] EXCEPT !.published = @ + 1]
       IN  /\ lists' = [lists EXCEPT ![L] = bt.yjsState]
           /\ IF bt.existing
              THEN BootStay(b, [bt EXCEPT !.pc = "mark"],
                            Append(remoteEvents, Event("LIST_METADATA_CHANGED", L)))
              ELSE BootAdvance(b, bt, Append(remoteEvents, Event("LIST_CREATED", L)))
    /\ UNCHANGED <<sideVars, connVars, remoteOk, docs, syncQueue, usedIds, usedLists, histVars, loopVars,
                   svcVars, runs, opVars, metadata, inbound, inboundCount, crdtUpdates, replicas>>

\* setLastSyncTimestamp with the timestamp of the last row returned
BootMark(b) ==
    /\ boots[b].pc = "mark"
    /\ LET L == Head(boots[b].todo)
           latestUpdateTimestamp == NewDate(boots[b].updates[Len(boots[b].updates)].created_at)
       IN  /\ metadata' = setLastSyncTimestamp(metadata, L, latestUpdateTimestamp)
           /\ IF boots[b].existing
              THEN BootAdvance(b, boots[b], remoteEvents)
              ELSE BootNewList(b, boots[b], docs)
    /\ UNCHANGED <<sideVars, connVars, remoteOk, storeVars, histVars, loopVars, svcVars, runs, opVars,
                   inbound, inboundCount, crdtUpdates, replicas>>

\* the next step of one bootstrapFromRemote invocation
BootStep(b) ==
    \/ BootFetch(b)
    \/ BootExists(b)
    \/ BootSince(b)
    \/ BootPull(b)
    \/ BootSave(b)
    \/ BootMark(b)

(***************************************************************************)
(* Specifications.  Each one lets the user start the operations of one     *)
(* family, next to the environment and the Outbox Processor.               *)
(***************************************************************************)
Environment ==
    \/ handleBrowserOnline
    \/ handleBrowserOffline
    \/ \E connected \in BOOLEAN : handleRealtimeConnectionChange(connected)
    \/ RemoteFlip

\* the next step of one processSyncQueue invocation
RunStep(r) ==
    \/ RunRead(r)
    \/ RunSend(r)
    \/ RunRemove(r)
    \/ RunRemaining(r)

Outbox ==
    \/ StartService
    \/ StartServiceCheck
    \/ handleConnectionChange
    \/ handleConnectionChangeResume
    \/ Tick
    \/ \E r \in RunIds : RunStep(r)

\* the tail every operation that enqueues goes through
QueueSteps ==
    \/ \E u \in UUIDs, date \in Dates : OpEnqueue(u, date)
    \/ OpTrigger
    \/ OpCheck
    \/ OpReturn

\* the next step of an item mutation in flight
ItemSteps ==
    \/ OpSave
    \/ OpPush
    \/ QueueSteps

ItemOps ==
    \/ \E kind \in ItemKinds, L \in Lists, itemId \in ItemIds, text \in Texts,
          newIndex \in NewIndexes : BeginItemOp(kind, L, itemId, text, newIndex)
    \/ ItemSteps

AlwaysQueueOps ==
    \/ \E kind \in AlwaysQueueKinds, L \in Lists, text \in Texts :
          BeginAlwaysQueueOp(kind, L, text)
    \/ OpSave
    \/ QueueSteps

RemoveOps ==
    \/ \E kind \in RemoveKinds, L \in Lists : BeginRemoveOp(kind, L)
    \/ OpRepoDelete
    \/ OpPurgeRead
    \/ OpPurgeDelete
    \/ OpClearMeta
    \/ OpPush
    \/ QueueSteps
    \/ BeginClearAllData
    \/ OpWipeLists
    \/ OpWipeQueue

CreateOps ==
    \/ \E L \in Lists, title \in Texts : BeginCreateList(L, title)
    \/ OpSave
    \/ OpRemoteCreate
    \/ OpPush
    \/ \E u \in UUIDs, date \in Dates : OpEnqueueCreate(u, date)
    \/ QueueSteps

\* the item mutations
NextItems == Environment \/ Outbox \/ ItemOps

SpecItems == Init /\ [][NextItems]_vars

\* The event loop runs every timer that is due and every continuation whose
\* awaited operation has completed; the user and the network owe nothing.
Fairness ==
    /\ WF_vars(StartServiceCheck)
    /\ WF_vars(handleConnectionChange)
    /\ WF_vars(handleConnectionChangeResume)
    /\ WF_vars(Tick)
    /\ \A r \in RunIds : WF_vars(RunStep(r))
    /\ WF_vars(ItemSteps)

\* addItem on the loaded list; its entry gets the first uuid and date, which
\* the delivery of a single entry does not read
AddItemOps ==
    \/ \E itemId \in ItemIds, text \in Texts : BeginItemOp("addItem", "L1", itemId, text, 0)
    \/ OpSave
    \/ OpPush
    \/ OpEnqueue(1, 0)
    \/ OpTrigger
    \/ OpCheck
    \/ OpReturn

\* addItem on the loaded list, under fair scheduling
NextLive == Environment \/ Outbox \/ AddItemOps

SpecLive == Init /\ [][NextLive]_vars /\ Fairness

\* editListMetadata and clearCompletedItems
NextAlwaysQueue == Environment \/ Outbox \/ AlwaysQueueOps

SpecAlwaysQueue == Init /\ [][NextAlwaysQueue]_vars

(***************************************************************************)
(* The application loaded with entries a previous session left in the      *)
(* durable queue.  The coordinator does not serialise its operations and   *)
(* the queue outlives the session, so any combination of entries can be    *)
(* found there.                                                            *)
(***************************************************************************)
EntryShapes ==
    [listUUID : Lists, operationType : {"LIST_CREATE", "LIST_DELETE", "LIST_LEAVE"},
     data : {Null}, addedDate : Dates]
    \cup [listUUID : Lists, operationType : {"YJS_UPDATE"},
          data : {Null, <<FirstDoc>>}, addedDate : Dates]

LeftoverQueues(most, shapes) ==
    UNION {{ {NewEntry(i, f[i].listUUID, f[i].operationType, f[i].data, f[i].addedDate)
                 : i \in 1..n} : f \in [1..n -> shapes] } : n \in 0..most}

InitOutbox == Boot(LeftoverQueues(MaxLeftover, EntryShapes))

\* the Outbox Processor alone
NextOutbox == Environment \/ Outbox

SpecOutbox == InitOutbox /\ [][NextOutbox]_vars

\* item mutations made offline and not yet delivered
PendingUpdates ==
    {sh \in EntryShapes : sh.operationType = "YJS_UPDATE" /\ sh.data # Null /\ sh.addedDate = 0}

InitRemove == Boot(LeftoverQueues(MaxPurged, PendingUpdates))

\* deleteList, leaveList and clearAllData
NextRemove == Environment \/ Outbox \/ RemoveOps

SpecRemove == InitRemove /\ [][NextRemove]_vars

(***************************************************************************)
(* Reconciliation and the Remote Update Listener.  Other clients have      *)
(* pushed rows to crdt_updates, this client may have pushed some itself,   *)
(* a watermark may be stored for the loaded list, and another user may     *)
(* have shared the list L2.                                                *)
(***************************************************************************)
SecondItem(i) == [id |-> 1 + i, content |-> "b", isCompleted |-> FALSE]

\* the state a row carries: the loaded list as this client pushed it, or with
\* one more item that the pushing client has added
StateOf(c, i) ==
    IF c = OurClientId THEN FirstDoc
    ELSE [title |-> "a", items |-> <<FirstItem, SecondItem(i)>>]

\* the rows are numbered in insertion order, created_at is the insertion time
RemoteTables ==
    UNION {{ {Row(i, f[i].L, f[i].c, f[i].t, StateOf(f[i].c, i)) : i \in 1..n}
               : f \in {g \in [1..n -> [L : Lists, c : ClientIds, t : Instants]] :
                            \A i, j \in 1..n : i < j => g[i].t < g[j].t} }
             : n \in 0..MaxRows}

SharedRemote == [created |-> {"L1", "L2"}, deleted |-> {}, left |-> {}]

Watermarks == {Null} \cup {<<NewDate(t)>> : t \in Instants}

InitRecon ==
    /\ Loaded({{}}, {NoRemote, SharedRemote})
    /\ SideAtRest
    /\ metadata \in {[L \in Lists |-> IF L = "L1"
                                        THEN [NoSyncMetadata EXCEPT !.last_sync = w]
                                        ELSE NoSyncMetadata] : w \in Watermarks}
    /\ crdtUpdates \in RemoteTables
    /\ Unreconciled

Network ==
    \/ handleBrowserOnline
    \/ handleBrowserOffline
    \/ RemoteFlip

Listener ==
    \/ \E row \in crdtUpdates : ReceiveUpdate(row)
    \/ InboundApply
    \/ InboundSave
    \/ InboundMark

Reconciliation ==
    \/ \E b \in BootIds : BeginBootstrap(b)
    \/ \E b \in BootIds : BootStep(b)

NextRecon == Network \/ Listener \/ Reconciliation

SpecRecon == InitRecon /\ [][NextRecon]_vars

\* what the Outbox Processor does about a connection change
Reconnection ==
    \/ StartService
    \/ StartServiceCheck
    \/ handleConnectionChange
    \/ handleConnectionChangeResume

\* connection changes, the listener of the Outbox Processor and bootstrap
NextReconnect == Environment \/ Reconnection \/ Reconciliation

\* App.initializeApp makes the first call of bootstrapFromRemote; the event
\* loop runs the continuations of a pass and the debounce timer.  A later
\* call (accepting an invite) is up to the user.
ReconnectFairness ==
    /\ WF_vars(BeginBootstrap(1))
    /\ \A b \in BootIds : WF_vars(BootStep(b))
    /\ WF_vars(StartServiceCheck)
    /\ WF_vars(handleConnectionChange)
    /\ WF_vars(handleConnectionChangeResume)

\* the application loaded while another client has pushed one row
InitReconnect ==
    /\ Loaded({{}}, {NoRemote})
    /\ SideAtRest
    /\ metadata = [L \in Lists |-> NoSyncMetadata]
    /\ crdtUpdates = {Row(1, "L1", OtherClientId, 1, StateOf(OtherClientId, 1))}
    /\ Unreconciled

SpecReconnect == InitReconnect /\ [][NextReconnect]_vars /\ ReconnectFairness

(***************************************************************************)
(* Lists removed while a watermark is stored for the loaded list           *)
(***************************************************************************)
\* the loaded list has been reconciled (a watermark is stored for it) and an
\* item mutation made offline waits in the queue
InitForget ==
    /\ Loaded({{NewEntry(1, "L1", "YJS_UPDATE", <<FirstDoc>>, 0)}}, {NoRemote})
    /\ SideAtRest
    /\ metadata = [L \in Lists |-> IF L = "L1"
                                    THEN [NoSyncMetadata EXCEPT !.last_sync = <<NewDate(MaxInstant)>>]
                                    ELSE NoSyncMetadata]
    /\ crdtUpdates = {}
    /\ Unreconciled

\* deleteList, leaveList, clearAllData and the handler of a remote deletion
NextForget ==
    \/ Environment
    \/ Outbox
    \/ RemoveOps
    \/ \E L \in Lists : BeginRemoteDeletion(L)

SpecForget == InitForget /\ [][NextForget]_vars

(***************************************************************************)
(* Two replicas of one document.  The Y.Array 'items' of a Y.Doc is a      *)
(* sequence of elements; an element carries the identity <<client, clock>> *)
(* of its insertion, the identities of the elements it was inserted        *)
(* between, its value, and a mark saying that it was deleted.  Deleted     *)
(* elements stay in the sequence.  The client identity of a Y.Doc is a     *)
(* random number, so either replica may hold the smaller one.              *)
(***************************************************************************)
Element(client, clock, origin, rightOrigin, val) ==
    [id |-> <<client, clock>>, origin |-> origin, rightOrigin |-> rightOrigin,
     val |-> val, deleted |-> FALSE]

\* the position of the element with this identity, 0 when the sequence has none
PositionOf(seq, id) ==
    IF \E p \in 1..Len(seq) : seq[p].id = id
    THEN CHOOSE p \in 1..Len(seq) : seq[p].id = id
    ELSE 0

\* the positions of the elements that are not deleted, from position p on
RECURSIVE VisiblePositions(_, _)
VisiblePositions(seq, p) ==
    IF p > Len(seq) THEN <<>>
    ELSE (IF seq[p].deleted THEN <<>> ELSE <<p>>) \o VisiblePositions(seq, p + 1)

\* items.toArray(): the values a reader of the document sees
toArray(seq) ==
    LET vp == VisiblePositions(seq, 1)
    IN  [k \in 1..Len(vp) |-> seq[vp[k]].val]

\* items.delete(index, 1)
YArrayDelete(rep, index) ==
    LET vp == VisiblePositions(rep.seq, 1)
    IN  [rep EXCEPT !.seq[vp[index + 1]].deleted = TRUE]

\* items.insert(index, [val]): the new element goes right after the visible
\* element that ends the first index values (at the start for index 0) and
\* remembers that element and the one that followed it
YArrayInsert(rep, index, val) ==
    LET vp == VisiblePositions(rep.seq, 1)
        left == IF index = 0 THEN 0 ELSE vp[index]
        origin == IF left = 0 THEN Null ELSE <<rep.seq[left].id>>
        rightOrigin == IF left = Len(rep.seq) THEN Null ELSE <<rep.seq[left + 1].id>>
    IN  [rep EXCEPT !.seq = InsertAt(@, left + 1,
                                     Element(rep.clientID, rep.clock, origin, rightOrigin, val)),
                    !.clock = @ + 1]

\* YjsListManager.editItem on a replica
ReplicaEditItem(rep, itemId, text) ==
    LET items == toArray(rep.seq)
        i == IndexOfItem(items, itemId)
    IN  IF i = -1 THEN rep
        ELSE YArrayInsert(YArrayDelete(rep, i), i, [items[i + 1] EXCEPT !.content = text])

\* YjsListManager.toggleItem on a replica
ReplicaToggleItem(rep, itemId) ==
    LET items == toArray(rep.seq)
        i == IndexOfItem(items, itemId)
    IN  IF i = -1 THEN rep
        ELSE YArrayInsert(YArrayDelete(rep, i), i, [items[i + 1] EXCEPT !.isCompleted = ~@])

\* Y.encodeStateAsUpdate: every element and the identities of the deleted ones
encodeStateAsUpdate(rep) ==
    [structs |-> {[e EXCEPT !.deleted = FALSE] : e \in Range(rep.seq)},
     ds |-> {e.id : e \in {x \in Range(rep.seq) : x.deleted}}]

\* the scan of Item.integrate: o is the position examined, left the position
\* after which the new element e will be placed; elements inserted at the
\* same place are ordered by client identity
RECURSIVE Conflicts(_, _, _, _, _, _)
Conflicts(seq, e, o, left, itemsBeforeOrigin, conflictingItems) ==
    IF o > Len(seq) \/ (e.rightOrigin # Null /\ seq[o].id = e.rightOrigin[1]) THEN left
    ELSE LET before == itemsBeforeOrigin \cup {seq[o].id}
             conflicting == conflictingItems \cup {seq[o].id}
         IN  IF seq[o].origin = e.origin
             THEN IF seq[o].id[1] < e.id[1]
                  THEN Conflicts(seq, e, o + 1, o, before, {})
                  ELSE IF seq[o].rightOrigin = e.rightOrigin THEN left
                  ELSE Conflicts(seq, e, o + 1, left, before, conflicting)
             ELSE IF seq[o].origin # Null /\ seq[o].origin[1] \in before
                  THEN IF seq[o].origin[1] \notin conflicting
                       THEN Conflicts(seq, e, o + 1, o, before, {})
                       ELSE Conflicts(seq, e, o + 1, left, before, conflicting)
                  ELSE left

\* Item.integrate: place an element another replica has inserted
integrate(seq, e) ==
    LET origin == IF e.origin = Null THEN 0 ELSE PositionOf(seq, e.origin[1])
    IN  InsertAt(seq, Conflicts(seq, e, origin + 1, origin, {}, {}) + 1, e)

\* the elements of an update whose neighbours the sequence already has
Ready(seq, missing) ==
    {e \in missing : /\ e.origin # Null => PositionOf(seq, e.origin[1]) # 0
                     /\ e.rightOrigin # Null => PositionOf(seq, e.rightOrigin[1]) # 0}

RECURSIVE IntegrateAll(_, _)
IntegrateAll(seq, missing) ==
    IF Ready(seq, missing) = {} THEN seq
    ELSE LET e == CHOOSE x \in Ready(seq, missing) : TRUE
         IN  IntegrateAll(integrate(seq, e), missing \ {e})

\* Y.applyUpdate: integrate the elements the replica does not hold, then mark
\* the deleted ones
applyUpdate(rep, update) ==
    LET seq == IntegrateAll(rep.seq, {e \in update.structs : PositionOf(rep.seq, e.id) = 0})
    IN  [rep EXCEPT !.seq = [p \in 1..Len(seq) |->
                                [seq[p] EXCEPT !.deleted = @ \/ seq[p].id \in update.ds]],
                    !.applied = TRUE]

\* the documents two clients can have loaded: one or two items, added in
\* order by the client that created the list
RECURSIVE Filled(_, _)
Filled(rep, items) ==
    IF items = <<>> THEN rep
    ELSE Filled(YArrayInsert(rep, Len(rep.seq), Head(items)), Tail(items))

ForkItems ==
    {<<[id |-> 1, content |-> "a", isCompleted |-> c]>> : c \in BOOLEAN}
    \cup {<<[id |-> 1, content |-> "a", isCompleted |-> c],
            [id |-> 2, content |-> "b", isCompleted |-> d]>> : c, d \in BOOLEAN}

Fork(items, client) ==
    [Filled([NewReplica EXCEPT !.clientID = 0], items)
        EXCEPT !.clientID = client, !.clock = 0, !.forked = items]

\* editItem(itemId, text) on replica r, which has not yet heard of the other
ReplicaEdit(r, itemId, text) ==
    /\ replicas[r].did = "none"
    /\ ~replicas[r].applied
    /\ replicas' = [replicas EXCEPT ![r] = [ReplicaEditItem(@, itemId, text)
                                               EXCEPT !.did = "editItem", !.itemId = itemId]]
    /\ UNCHANGED <<sideVars, metadata, remoteEvents, isBootstrapping, boots, inbound, inboundCount,
                   crdtUpdates, connVars, remoteOk, storeVars, histVars, loopVars, svcVars,
                   runs, opVars>>

\* toggleItem(itemId) on replica r, which has not yet heard of the other
ReplicaToggle(r, itemId) ==
    /\ replicas[r].did = "none"
    /\ ~replicas[r].applied
    /\ replicas' = [replicas EXCEPT ![r] = [ReplicaToggleItem(@, itemId)
                                               EXCEPT !.did = "toggleItem", !.itemId = itemId]]
    /\ UNCHANGED <<sideVars, metadata, remoteEvents, isBootstrapping, boots, inbound, inboundCount,
                   crdtUpdates, connVars, remoteOk, storeVars, histVars, loopVars, svcVars,
                   runs, opVars>>

\* replica r applies the encoded state of replica s
ReplicaApply(r, s) ==
    /\ r # s
    /\ replicas' = [replicas EXCEPT ![r] = applyUpdate(@, encodeStateAsUpdate(replicas[s]))]
    /\ UNCHANGED <<sideVars, metadata, remoteEvents, isBootstrapping, boots, inbound, inboundCount,
                   crdtUpdates, connVars, remoteOk, storeVars, histVars, loopVars, svcVars,
                   runs, opVars>>

InitMerge ==
    /\ Loaded({{}}, {NoRemote})
    /\ SideAtRest
    /\ metadata = [L \in Lists |-> NoSyncMetadata]
    /\ crdtUpdates = {}
    /\ remoteEvents = <<>>
    /\ isBootstrapping = FALSE
    /\ boots = [b \in BootIds |-> IdleBoot]
    /\ inbound = IdleInbound
    /\ inboundCount = 0
    /\ \E items \in ForkItems, first \in ReplicaIds :
          replicas = [r \in ReplicaIds |-> Fork(items, IF r = first THEN 1 ELSE 2)]

NextMerge ==
    \/ \E r \in ReplicaIds, itemId \in MergeItemIds, text \in MergeTexts : ReplicaEdit(r, itemId, text)
    \/ \E r \in ReplicaIds, itemId \in MergeItemIds : ReplicaToggle(r, itemId)
    \/ \E r, s \in ReplicaIds : ReplicaApply(r, s)

SpecMerge == InitMerge /\ [][NextMerge]_vars

(***************************************************************************)
(* Client identity.  getClientId is called by every push, by the Outbox    *)
(* Processor, by bootstrapFromRemote and by the Remote Update Listener;    *)
(* the calls of different handlers overlap at their awaits.  The           *)
(* identifier an earlier session persisted is 0, generateUUID hands out    *)
(* 1, 2, ...; a Local Store call may throw.                                *)
(***************************************************************************)
\* getClientId up to the await of getMetadata
GetClientId(c) ==
    /\ idCalls[c].pc = "idle"
    /\ idCalls' = [idCalls EXCEPT ![c] =
                      IF cachedClientId # Null
                      THEN [@ EXCEPT !.pc = "done", !.result = cachedClientId]
                      ELSE [@ EXCEPT !.pc = "read"]]
    /\ UNCHANGED <<coreVars, busVars, overlapVars, cachedClientId, clientIdRecord, generatedClientIds>>

\* generateUUID and setClientId up to the await of saveMetadata
Generate(c, next) ==
    /\ generatedClientIds < MaxClientIds
    /\ generatedClientIds' = generatedClientIds + 1
    /\ cachedClientId' = <<generatedClientIds + 1>>
    /\ idCalls' = [idCalls EXCEPT ![c] = [@ EXCEPT !.pc = next,
                                                   !.pending = <<generatedClientIds + 1>>,
                                                   !.threw = @ \/ next = "saveFallback"]]

\* getMetadata('client_id') returned or threw
ClientIdRead(c, ok) ==
    /\ idCalls[c].pc = "read"
    /\ IF ok /\ clientIdRecord # Null
       THEN /\ cachedClientId' = clientIdRecord
            /\ idCalls' = [idCalls EXCEPT ![c] = [@ EXCEPT !.pc = "done",
                                                           !.result = clientIdRecord]]
            /\ UNCHANGED generatedClientIds
       ELSE Generate(c, IF ok THEN "save" ELSE "saveFallback")
    /\ UNCHANGED <<coreVars, busVars, overlapVars, clientIdRecord>>

\* saveMetadata of setClientId returned or threw; a throw inside the try
\* block leads to the fallback, a throw of the fallback rejects the call
ClientIdSave(c, ok) ==
    /\ idCalls[c].pc \in {"save", "saveFallback"}
    /\ IF ok
       THEN /\ clientIdRecord' = idCalls[c].pending
            /\ idCalls' = [idCalls EXCEPT ![c] = [@ EXCEPT !.pc = "done",
                                                           !.result = idCalls[c].pending]]
            /\ UNCHANGED <<cachedClientId, generatedClientIds>>
       ELSE IF idCalls[c].pc = "save"
            THEN Generate(c, "saveFallback") /\ UNCHANGED clientIdRecord
            ELSE /\ idCalls' = [idCalls EXCEPT ![c] = [@ EXCEPT !.pc = "done", !.threw = TRUE]]
                 /\ UNCHANGED <<cachedClientId, clientIdRecord, generatedClientIds>>
    /\ UNCHANGED <<coreVars, busVars, overlapVars>>

\* a first session (nothing stored) or a later one (identifier 0 stored)
InitIdentity ==
    /\ Loaded({{}}, {NoRemote})
    /\ metadata = [L \in Lists |-> NoSyncMetadata]
    /\ crdtUpdates = {}
    /\ Unreconciled
    /\ cachedClientId = Null
    /\ clientIdRecord \in {Null, <<0>>}
    /\ generatedClientIds = 0
    /\ idCalls = [c \in CallIds |-> IdleCall]
    /\ eventSubscriptions = [t \in BusTypes |-> <<>>]
    /\ invocations = [h \in HandlerIds |-> 0]
    /\ lastPublish = NoPublish
    /\ suspended = Null
    /\ awaitingRun = Null

NextIdentity ==
    \/ \E c \in CallIds : GetClientId(c)
    \/ \E c \in CallIds, ok \in BOOLEAN : ClientIdRead(c, ok)
    \/ \E c \in CallIds, ok \in BOOLEAN : ClientIdSave(c, ok)

SpecIdentity == InitIdentity /\ [][NextIdentity]_vars

(***************************************************************************)
(* The Remote Update Listener alone: one row of crdt_updates, pushed by    *)
(* this client or another, whose bytes decode or not, is announced while   *)
(* an item mutation made offline may wait in the queue.                    *)
(***************************************************************************)
InboundTables ==
    {{Row(1, L, c, t, data)} : L \in Lists, c \in ClientIds, t \in Instants,
                               data \in {StateOf(OtherClientId, 1), Malformed}}

InitInbound ==
    /\ Loaded({{}, {NewEntry(1, "L1", "YJS_UPDATE", <<FirstDoc>>, 0)}}, {NoRemote})
    /\ SideAtRest
    /\ metadata \in {[L \in Lists |-> IF L = "L1"
                                        THEN [NoSyncMetadata EXCEPT !.last_sync = w]
                                        ELSE NoSyncMetadata] : w \in Watermarks}
    /\ crdtUpdates \in InboundTables
    /\ Unreconciled

NextInbound == Network \/ Listener

SpecInbound == InitInbound /\ [][NextInbound]_vars

(***************************************************************************)
(* Event Bus (EventService).  The subscriptions of an event type are kept  *)
(* in insertion order; a subscription is the wrapper subscribe creates      *)
(* around a handler, and a handler may throw when it is called.            *)
(***************************************************************************)
Subscribed(subs) == UNION {{sub.id : sub \in Range(subs[t])} : t \in BusTypes}

RECURSIVE WithoutId(_, _)
WithoutId(handlers, h) ==
    IF handlers = <<>> THEN <<>>
    ELSE IF Head(handlers).id = h THEN Tail(handlers)
         ELSE <<Head(handlers)>> \o WithoutId(Tail(handlers), h)

RECURSIVE notifyUncaught(_, _)
\* a forEach without the try block: the first throw ends the publish
notifyUncaught(handlers, calls) ==
    IF handlers = <<>> THEN [calls |-> calls, returned |-> "normally"]
    ELSE LET called == [calls EXCEPT ![Head(handlers).id] = @ + 1]
         IN  IF Head(handlers).throws THEN [calls |-> called, returned |-> "threw"]
             ELSE notifyUncaught(Tail(handlers), called)

RECURSIVE notifyEventSubscribers(_, _)
\* handlers.forEach: each handler is called inside try; a throw is caught
\* and logged and the iteration goes on
notifyEventSubscribers(handlers, calls) ==
    IF handlers = <<>> THEN [calls |-> calls, returned |-> "normally"]
    ELSE notifyEventSubscribers(Tail(handlers),
                                [calls EXCEPT ![Head(handlers).id] = @ + 1])

\* subscribe(eventType, handler)
Subscribe(t, h, throws) ==
    /\ h \notin Subscribed(eventSubscriptions)
    /\ eventSubscriptions' = [eventSubscriptions EXCEPT
                                 ![t] = Append(@, [id |-> h, throws |-> throws])]
    /\ UNCHANGED <<coreVars, idVars, overlapVars, invocations, lastPublish>>

\* the function subscribe returned is called
Unsubscribe(t, h) ==
    /\ h \in {sub.id : sub \in Range(eventSubscriptions[t])}
    /\ eventSubscriptions' = [eventSubscriptions EXCEPT ![t] = WithoutId(@, h)]
    /\ UNCHANGED <<coreVars, idVars, overlapVars, invocations, lastPublish>>

\* publish(event)
PublishEvent(t) ==
    /\ lastPublish.count < MaxPublishes
    /\ LET done == notifyEventSubscribers(eventSubscriptions[t], [h \in HandlerIds |-> 0])
       IN  /\ invocations' = done.calls
           /\ lastPublish' = [type |-> t, returned |-> done.returned,
                              count |-> lastPublish.count + 1]
    /\ UNCHANGED <<coreVars, idVars, overlapVars, eventSubscriptions>>

NextBus ==
    \/ \E t \in BusTypes, h \in HandlerIds, throws \in BOOLEAN : Subscribe(t, h, throws)
    \/ \E t \in BusTypes, h \in HandlerIds : Unsubscribe(t, h)
    \/ \E t \in BusTypes : PublishEvent(t)

SpecBus == Init /\ [][NextBus]_vars

(***************************************************************************)
(* The idle loop.  A previous session left one item mutation in the queue; *)
(* the user deletes the list while the loop is running, the purge empties  *)
(* the queue under the loop and the following ticks find nothing to send.  *)
(***************************************************************************)
InitIdle == Boot({{NewEntry(1, "L1", "YJS_UPDATE", <<FirstDoc>>, 0)}})

\* deleteList of the loaded list
DeleteListOps ==
    \/ BeginRemoveOp("deleteList", "L1")
    \/ OpRepoDelete
    \/ OpPurgeRead
    \/ OpPurgeDelete
    \/ OpPush
    \/ QueueSteps

NextIdle == Environment \/ Outbox \/ DeleteListOps

SpecIdle == InitIdle /\ [][NextIdle]_vars

(***************************************************************************)
(* Reconciliation and the Remote Update Listener on a client that has not  *)
(* stored a watermark yet: the rows were pushed by other clients while its *)
(* realtime channel was down, or are announced to it by the channel.       *)
(***************************************************************************)
InitWatermark ==
    /\ Loaded({{}}, {NoRemote, SharedRemote})
    /\ SideAtRest
    /\ metadata = [L \in Lists |-> NoSyncMetadata]
    /\ crdtUpdates \in RemoteTables
    /\ Unreconciled

SpecWatermark == InitWatermark /\ [][NextRecon]_vars

(***************************************************************************)
(* moveItem on a list of up to MaxMoved items, in any order.               *)
(***************************************************************************)
MovedDocs ==
    UNION {{[title |-> "a",
             items |-> [i \in 1..k |-> [id |-> f[i], content |-> "a", isCompleted |-> FALSE]]]
               : f \in {g \in [1..k -> 1..k] : \A i, j \in 1..k : i # j => g[i] # g[j]}}
             : k \in 1..MaxMoved}

InitMove ==
    /\ \E d \in MovedDocs : LoadedWith(d, {{}}, {NoRemote})
    /\ SideAtRest
    /\ metadata = [L \in Lists |-> NoSyncMetadata]
    /\ crdtUpdates = {}
    /\ Unreconciled

\* moveItem of the offline client
NextMove ==
    \/ \E itemId \in ItemIds, newIndex \in NewIndexes :
          BeginItemOp("moveItem", "L1", itemId, "b", newIndex)
    \/ OpSave
    \/ \E u \in UUIDs, date \in Dates : OpEnqueue(u, date)
    \/ OpTrigger
    \/ OpReturn

SpecMove == InitMove /\ [][NextMove]_vars

(***************************************************************************)
(* An item mutation that awaits while deleteList of its list runs.         *)
(***************************************************************************)
\* addItem awaits saveList or pushUpdate and the user starts another
\* operation; the put that saveList has requested is ahead of every request
\* the other operation makes of the same store
OpSuspend ==
    /\ suspended = Null
    /\ op.kind \in ItemKinds
    /\ op.pc \in {"save", "push"}
    /\ lists' = IF op.pc = "save" THEN [lists EXCEPT ![op.list] = op.yjsState] ELSE lists
    /\ suspended' = <<[op EXCEPT !.pc = IF @ = "save" THEN "saved" ELSE @]>>
    /\ op' = IdleOp
    /\ UNCHANGED <<idVars, busVars, awaitingRun, connVars, remoteOk, docs, syncQueue, usedIds, usedLists,
                   histVars, loopVars, svcVars, runs, opCount, syncVars>>

\* listRepository.saveList returned to an operation that has waited
OpSaved ==
    /\ op.pc = "saved"
    /\ op' = AfterLocal([op EXCEPT !.saved = TRUE])
    /\ UNCHANGED <<sideVars, syncVars, connVars, remoteOk, storeVars, histVars, loopVars, svcVars,
                   runs, opCount>>

\* the awaited call of the waiting operation returns; history: the operation
\* that completed meanwhile
OpResume ==
    /\ suspended # Null
    /\ op.pc \in {"idle", "done"}
    /\ op' = [suspended[1] EXCEPT !.overlapped = IF op.pc = "done" THEN op.kind ELSE @]
    /\ suspended' = Null
    /\ UNCHANGED <<idVars, busVars, awaitingRun, connVars, remoteOk, storeVars, histVars, loopVars,
                   svcVars, runs, opCount, syncVars>>

\* addItem and deleteList of the loaded list, before the service is started
NextOverlap ==
    \/ Environment
    \/ \E itemId \in ItemIds, text \in Texts : BeginItemOp("addItem", "L1", itemId, text, 0)
    \/ OpSave
    \/ OpPush
    \/ \E u \in UUIDs, date \in Dates : OpEnqueue(u, date)
    \/ OpTrigger
    \/ OpReturn
    \/ BeginRemoveOp("deleteList", "L1")
    \/ OpRepoDelete
    \/ OpPurgeRead
    \/ OpPurgeDelete
    \/ OpSuspend
    \/ OpResume
    \/ OpSaved

SpecOverlap == InitIdle /\ [][NextOverlap]_vars

(***************************************************************************)
(* deleteList or leaveList of the loaded list while a row of another       *)
(* client is announced by the realtime channel.                            *)
(***************************************************************************)
InitLate ==
    /\ Loaded({{}, {NewEntry(1, "L1", "YJS_UPDATE", <<FirstDoc>>, 0)}}, {NoRemote})
    /\ SideAtRest
    /\ metadata = [L \in Lists |-> NoSyncMetadata]
    /\ crdtUpdates \in {{Row(1, "L1", c, t, StateOf(OtherClientId, 1))} :
                            c \in ClientIds, t \in Instants}
    /\ Unreconciled

NextLate ==
    \/ Environment
    \/ Listener
    \/ \E kind \in RemoveKinds : BeginRemoveOp(kind, "L1")
    \/ OpRepoDelete
    \/ OpPurgeRead
    \/ OpPurgeDelete
    \/ OpClearMeta
    \/ OpPush
    \/ \E u \in UUIDs, date \in Dates : OpEnqueue(u, date)
    \/ OpTrigger
    \/ OpReturn

SpecLate == InitLate /\ [][NextLate]_vars

(***************************************************************************)
(* A run of processSyncQueue that awaits its remote call while the timer   *)
(* or the start of the loop begins another run.                            *)
(***************************************************************************)
\* the run awaits the remote call of its current entry; nothing keeps
\* processSyncQueue from being entered again
RunYield(r) ==
    /\ awaitingRun = Null
    /\ runs[r].pc = "send"
    /\ awaitingRun' = <<runs[r]>>
    /\ runs' = [runs EXCEPT ![r] = IdleRun]
    /\ UNCHANGED <<coreVarsButRuns, idVars, busVars, suspended>>

\* the remote call of the awaiting run is about to return
RunRegain(r) ==
    /\ awaitingRun # Null
    /\ runs[r].pc = "idle"
    /\ runs' = [runs EXCEPT ![r] = awaitingRun[1]]
    /\ awaitingRun' = Null
    /\ UNCHANGED <<coreVarsButRuns, idVars, busVars, suspended>>

NextRuns ==
    \/ Environment
    \/ Outbox
    \/ \E r \in RunIds : RunYield(r)
    \/ \E r \in RunIds : RunRegain(r)

SpecRuns == InitIdle /\ [][NextRuns]_vars

\* createList
NextCreate == Environment \/ Outbox \/ CreateOps

SpecCreate == Init /\ [][NextCreate]_vars

\* every operation of the coordinator
Next == Environment \/ Outbox \/ ItemOps \/ AlwaysQueueOps \/ RemoveOps \/ CreateOps

Spec == Init /\ [][Next]_vars

(***************************************************************************)
(* Delivery                                                                *)
(***************************************************************************)
Delivered(u) == u \in ackedIds /\ u \notin QueueIds(syncQueue)

\* C1: if the connection eventually is and stays online and the remote store
\* eventually accepts every push, then every entry an item mutation has
\* queued while the outbox service is started is eventually pushed
\* successfully and removed from the queue.
C1_NoStrandedWrite ==
    <>[](isOnline /\ remoteOk)
        => \A u \in UUIDs : (u \in QueueIds(syncQueue) /\ isStarted) ~> Delivered(u)

C1_Witness ==
    /\ op.kind \in ItemKinds
    /\ op.online = "offline"
    /\ op.pc = "done"
    /\ isStarted
    /\ isOnline
    /\ \E u \in UUIDs : Delivered(u)

(***************************************************************************)
(* Properties of the coordinator's operations                              *)
(***************************************************************************)
NewEntries == syncQueue' \ syncQueue

\* C2: an addItem on a loaded list that finds the Connection Monitor offline
\* has saved the full snapshot of the document to the Local Store, appends
\* exactly one YJS_UPDATE entry carrying that snapshot, and has made no
\* remote call when it returns.
C2_OfflineAddItem ==
    [][(op.kind = "addItem" /\ op.online = "offline") =>
          /\ (op.pc = "enqueue" /\ op'.pc # "enqueue") =>
                 /\ op.saved
                 /\ op.yjsState # Null
                 /\ lists[op.list] = op.yjsState
                 /\ op.yjsState = getYjsState(docs, op.list)
                 /\ syncQueue \subseteq syncQueue'
                 /\ Cardinality(NewEntries) = 1
                 /\ \A e \in NewEntries : /\ e.operationType = "YJS_UPDATE"
                                          /\ e.listUUID = op.list
                                          /\ e.data = op.yjsState
          /\ (op.pc # "done" /\ op'.pc = "done") =>
                 /\ op'.saved
                 /\ op'.enq = 1
                 /\ op'.calls = 0
                 /\ ~op'.rejected]_vars

C2_Witness ==
    /\ op.pc = "done"
    /\ op.kind = "addItem"
    /\ op.online = "offline"
    /\ op.enq = 1
    /\ \E e \in syncQueue : e.data = lists[op.list] /\ Len(e.data[1].items) = 2

\* C3: an addItem that finds the Connection Monitor online and whose
\* immediate push succeeds has called the remote store exactly once and has
\* appended nothing to the queue.
C3_OnlineAddItem ==
    (op.pc = "done" /\ op.kind = "addItem" /\ op.online = "online" /\ op.pushed)
        => (op.calls = 1 /\ op.enq = 0 /\ op.saved /\ op.published)

C3_Witness ==
    /\ op.pc = "done"
    /\ op.kind = "addItem"
    /\ op.online = "online"
    /\ op.pushed
    /\ syncQueue = {}

\* C4: an item mutation that finds the Connection Monitor online and whose
\* immediate push throws does not reject: it appends exactly one entry, calls
\* triggerBackgroundSync (which reaches triggerSync when the service is
\* started, and starts the loop when the queue check finds the entry), and
\* still publishes its event.
C4_PushFailureFallsBack ==
    [][(op.kind \in ItemKinds /\ op.online = "online" /\ op.calls = 1 /\ ~op.pushed) =>
          /\ (op.pc = "push" \/ op.pc = "enqueue") => op'.pc \in {op.pc, "enqueue", "trigger"}
          /\ (op.pc = "enqueue" /\ op'.pc # "enqueue") =>
                 /\ Cardinality(NewEntries) = 1
                 /\ op'.triggered
          /\ (op.pc = "trigger" /\ op'.pc # "trigger") =>
                 /\ isStarted => op'.woke
                 /\ (isStarted /\ isOnline /\ ~isRunning) => op'.pc = "check"
          /\ (op.pc = "check" /\ op'.pc # "check" /\ syncQueue # {}) => isRunning'
          /\ (op.pc # "done" /\ op'.pc = "done") =>
                 /\ ~op'.rejected
                 /\ op'.enq = 1
                 /\ op'.triggered
                 /\ op'.published]_vars

C4_Witness ==
    /\ op.pc = "done"
    /\ op.kind = "editItem"
    /\ op.online = "online"
    /\ op.calls = 1
    /\ ~op.pushed
    /\ op.enq = 1
    /\ op.woke
    /\ op.published
    /\ isRunning

\* C5: every mutating operation that is about to enqueue without having
\* attempted a remote call has found the Connection Monitor offline
\* (the operations attempt the immediate push when online and enqueue only
\* when offline or after the push failed).
C5_EnqueueOnlyOfflineOrFailed ==
    (op.pc = "enqueue" /\ op.calls = 0 /\ isOnline) => op.online = "offline"

(***************************************************************************)
(* Properties of one run of processSyncQueue.  A run keeps the queue it     *)
(* read (snap) and what it did with each operation it came to (log).        *)
(***************************************************************************)
Sent(l) == l.res \in {"ok", "fail"}

InSnap(r, type, L) ==
    \E i \in 1..Len(runs[r].snap) :
        runs[r].snap[i].operationType = type /\ runs[r].snap[i].listUUID = L

LogOf(r, L) == {j \in 1..Len(runs[r].log) : runs[r].log[j].e.listUUID = L}

\* C6: in a tick in which every remote call succeeds, a queued LIST_LEAVE
\* (of a list with no LIST_DELETE queued) is sent and then removed from the
\* queue.
C6_LeaveDelivered ==
    \A r \in RunIds :
        (runs[r].pc = "remaining" /\ \A j \in 1..Len(runs[r].log) : runs[r].log[j].res = "ok")
        => \A i \in 1..Len(runs[r].snap) :
               LET e == runs[r].snap[i]
               IN  (e.operationType = "LIST_LEAVE" /\ ~InSnap(r, "LIST_DELETE", e.listUUID))
                   => /\ \E j \in 1..Len(runs[r].log) : runs[r].log[j].e = e
                      /\ e.uuid \notin QueueIds(syncQueue)

\* C7: when the queue a run read holds a LIST_DELETE for a list, the only
\* operation the run sends for that list is a LIST_DELETE, the earliest one,
\* and it is sent once.
C7_DeleteSupersedes ==
    \A r \in RunIds : \A L \in Lists :
        InSnap(r, "LIST_DELETE", L) =>
            /\ Cardinality(LogOf(r, L)) <= 1
            /\ runs[r].pc = "remaining" => Cardinality(LogOf(r, L)) = 1
            /\ \A j \in LogOf(r, L) :
                   /\ runs[r].log[j].e.operationType = "LIST_DELETE"
                   /\ Sent(runs[r].log[j])
                   /\ \A i \in 1..Len(runs[r].snap) :
                          (runs[r].snap[i].operationType = "LIST_DELETE"
                           /\ runs[r].snap[i].listUUID = L)
                          => runs[r].log[j].e.addedDate <= runs[r].snap[i].addedDate

C7_Witness ==
    \E r \in RunIds :
        /\ runs[r].pc = "remaining"
        /\ Len(runs[r].snap) = 2
        /\ runs[r].snap[1].listUUID = runs[r].snap[2].listUUID
        /\ runs[r].snap[1].operationType = "LIST_DELETE"
        /\ runs[r].snap[2].operationType = "YJS_UPDATE"
        /\ runs[r].snap[2].data # Null
        /\ runs[r].log = <<Logged(runs[r].snap[1], "ok")>>

SendRank(type) ==
    CASE type = "LIST_CREATE" -> 1
      [] type = "YJS_UPDATE" -> 2
      [] type = "LIST_DELETE" -> 3
      [] type = "LIST_LEAVE" -> 4

\* C8: the operations a run sends for one list go out in the order
\* LIST_CREATE, YJS_UPDATE, LIST_DELETE, LIST_LEAVE, and operations of the
\* same type in ascending enqueue time.
C8_SendOrder ==
    \A r \in RunIds : \A i, j \in 1..Len(runs[r].log) :
        LET a == runs[r].log[i].e
            b == runs[r].log[j].e
        IN  (i < j /\ a.listUUID = b.listUUID /\ Sent(runs[r].log[i]) /\ Sent(runs[r].log[j]))
            => \/ SendRank(a.operationType) < SendRank(b.operationType)
               \/ /\ a.operationType = b.operationType
                  /\ a.addedDate <= b.addedDate

C8_Witness ==
    \E r \in RunIds :
        /\ Len(runs[r].log) = 2
        /\ runs[r].log[1].e.listUUID = runs[r].log[2].e.listUUID
        /\ runs[r].log[1].e.operationType = "LIST_CREATE"
        /\ runs[r].log[2].e.operationType = "YJS_UPDATE"
        /\ runs[r].log[1].e.uuid > runs[r].log[2].e.uuid
        /\ runs[r].log[1].e.addedDate > runs[r].log[2].e.addedDate
        /\ runs[r].log[1].res = "ok"

\* C9: once the send of an entry of a list has failed in a run, the run sends
\* no further entry of that list; the failed entry and every entry of the
\* list the run had not yet sent stay queued (unless another run delivers
\* them), and the entries of the list it had sent before are gone.
C9_FailureStopsList ==
    \A r \in RunIds : \A i \in 1..Len(runs[r].log) :
        LET e == runs[r].log[i].e
        IN  runs[r].log[i].res = "fail" =>
               /\ \A j \in LogOf(r, e.listUUID) : j <= i
               /\ \A k \in 1..Len(runs[r].snap) :
                      (/\ runs[r].snap[k].listUUID = e.listUUID
                       /\ \A j \in 1..(i - 1) : runs[r].log[j].e # runs[r].snap[k])
                      => runs[r].snap[k].uuid \in QueueIds(syncQueue) \cup ackedIds
               /\ \A j \in 1..(i - 1) :
                      (runs[r].log[j].e.listUUID = e.listUUID /\ runs[r].log[j].res = "ok")
                      => runs[r].log[j].e.uuid \notin QueueIds(syncQueue)

\* an entry sent and removed, then the next entry of the list fails and stays
C9_Witness ==
    \E r \in RunIds :
        /\ runs[r].pc = "remaining"
        /\ Len(runs[r].log) = 2
        /\ runs[r].log[1].e.listUUID = runs[r].log[2].e.listUUID
        /\ runs[r].log[1].res = "ok"
        /\ runs[r].log[2].res = "fail"
        /\ QueueIds(syncQueue) = {runs[r].log[2].e.uuid}

\* the other case of C9: the first send of a list fails and the later entry
\* of the list is neither sent nor removed
C9_WitnessLater ==
    \E r \in RunIds :
        /\ runs[r].pc = "remaining"
        /\ Len(runs[r].snap) = 2
        /\ runs[r].snap[1].listUUID = runs[r].snap[2].listUUID
        /\ runs[r].snap[1].operationType = "YJS_UPDATE"
        /\ runs[r].snap[2].operationType = "YJS_UPDATE"
        /\ runs[r].log = <<Logged(runs[r].snap[2], "fail")>>
        /\ QueueIds(syncQueue) = {1, 2}

(***************************************************************************)
(* Properties of the queue                                                 *)
(***************************************************************************)
\* C10: an entry that has left the queue was sent successfully by the
\* Outbox Processor, or was purged with its list by deleteList or leaveList,
\* or was wiped by clearAllData.
C10_RemovedOnlyAfterSuccess ==
    /\ usedIds \ QueueIds(syncQueue) \subseteq ackedIds \cup purgedIds \cup wipedIds
    /\ \A r \in RunIds : runs[r].pc = "remove" =>
           Head(Head(runs[r].todo)).uuid \in ackedIds

C10_Witness ==
    /\ purgedIds # {}
    /\ \E u \in ackedIds : u \notin QueueIds(syncQueue) /\ u \notin purgedIds \cup wipedIds

(***************************************************************************)
(* Properties of the Remote Update Listener and of reconciliation          *)
(***************************************************************************)
\* C11: a realtime notification of a row whose client_id is this client's
\* identity is discarded without being applied: the callback ends there and
\* the document, the Local Store snapshot, the watermark of the list and the
\* published events are unchanged; no row of this client gets as far as the
\* save or the watermark.
C11_EchoSuppression ==
    [][/\ (inbound.pc = "clientId" /\ inbound.record[1].client_id = OurClientId
            /\ inbound' # inbound)
           => /\ inbound'.pc = "idle"
              /\ inbound'.outcome = "ignored"
              /\ UNCHANGED <<docs, lists, metadata, remoteEvents>>
       /\ inbound.pc \in {"save", "mark"} => inbound.record[1].client_id # OurClientId]_vars

\* the echo of a row this client pushed has been discarded, with an older
\* watermark stored that applying the row would have moved
C11_Witness ==
    /\ inbound.pc = "idle"
    /\ inbound.outcome = "ignored"
    /\ inbound.record[1].client_id = OurClientId
    /\ inbound.record[1].yjs_document_id = "L1"
    /\ metadata["L1"].last_sync # Null
    /\ metadata["L1"].last_sync[1] < NewDate(inbound.record[1].created_at)
    /\ remoteEvents = <<>>

InFlight(b) == boots[b].pc \notin {"idle", "done"}

\* C12: a call of bootstrapFromRemote made while another call is in flight
\* returns at once: it fetches no remote list, pulls and applies no row,
\* publishes no event and changes nothing; at most one pass is in flight at
\* any time.
C12_BootstrapReentrancy ==
    [][/\ \A b \in BootIds :
              (/\ boots[b].pc = "idle"
               /\ boots'[b].pc # "idle"
               /\ \E c \in BootIds : InFlight(c))
              => /\ boots'[b] = [IdleBoot EXCEPT !.pc = "done", !.outcome = "skipped"]
                 /\ UNCHANGED <<docs, lists, metadata, remoteEvents, isBootstrapping>>
                 /\ \A c \in BootIds : c # b => boots'[c] = boots[c]
       /\ Cardinality({b \in BootIds : InFlight(b)}) <= 1
       /\ isBootstrapping <=> \E b \in BootIds : InFlight(b)]_vars

\* the first call has applied rows and completed, the second was skipped
C12_Witness ==
    /\ boots[1].outcome = "completed"
    /\ boots[1].applied # <<>>
    /\ boots[2].outcome = "skipped"
    /\ boots[2].calls = 0

\* the rows of a list that a pull with this watermark has to return
NewerRows(L, since) ==
    {r \in crdtUpdates : /\ r.yjs_document_id = L
                         /\ r.client_id # OurClientId
                         /\ since = Null \/ r.created_at > since[1]}

ListEvents(evs, L) == {i \in 1..Len(evs) : evs[i].listId = L}

Passes == {b \in BootIds : boots[b].calls > 0}

\* C13: every transition of the Connection Monitor from offline to online is
\* followed by a bootstrap pass: once the monitor has been offline with n
\* passes made so far, whenever it is online afterwards a further pass is
\* eventually made.
C13_BootstrapAfterReconnect ==
    \A n \in 0..(MaxBoots - 1) :
        []((~isOnline /\ Cardinality(Passes) = n)
              => [](isOnline => <>(Cardinality(Passes) > n)))

(***************************************************************************)
(* Properties of deleting and leaving a list                               *)
(***************************************************************************)
\* C15: when deleteList(L), leaveList(L) or the handling of a remote deletion
\* of L has returned, the metadata table holds no last_sync_L, sync_state_L
\* or applied_remote_updates_L record.
C15_WatermarkCleared ==
    (op.pc = "done" /\ op.kind \in RemoveKinds \cup {"handleRemoteListDeletion"})
        => metadata[op.list] = NoSyncMetadata

ListEntries(L, types) ==
    {e \in syncQueue : e.listUUID = L /\ e.operationType \in types}

\* C16 as stated: when deleteList(L) has returned, the queue holds no
\* LIST_CREATE and no YJS_UPDATE entry of L; it holds exactly one LIST_DELETE
\* entry of L when the Connection Monitor was offline or the immediate remote
\* delete failed, and none when the immediate remote delete succeeded.
C16_DeletePurgesOutbox ==
    (op.pc = "done" /\ op.kind = "deleteList")
        => /\ ListEntries(op.list, {"LIST_CREATE", "YJS_UPDATE"}) = {}
           /\ Cardinality(ListEntries(op.list, {"LIST_DELETE"})) = IF op.pushed THEN 0 ELSE 1

\* C16: when deleteList(L) has returned, the queue holds no LIST_CREATE and no
\* YJS_UPDATE entry of L. When the immediate remote delete succeeded the
\* operation appended nothing and no LIST_DELETE entry of L is queued. When
\* the Connection Monitor was offline or the immediate remote delete failed,
\* the operation appended exactly one LIST_DELETE entry of L, and that entry
\* is the only LIST_DELETE entry of L in the queue unless the Outbox
\* Processor has already delivered and removed it.
C16_DeletePurgesOutboxUnlessDelivered ==
    (op.pc = "done" /\ op.kind = "deleteList")
        => /\ ListEntries(op.list, {"LIST_CREATE", "YJS_UPDATE"}) = {}
           /\ IF op.pushed
              THEN op.enq = 0 /\ ListEntries(op.list, {"LIST_DELETE"}) = {}
              ELSE /\ op.enq = 1
                   /\ Len(op.entry) = 1
                   /\ \/ {e.uuid : e \in ListEntries(op.list, {"LIST_DELETE"})} = {op.entry[1]}
                      \/ /\ ListEntries(op.list, {"LIST_DELETE"}) = {}
                         /\ op.entry[1] \in ackedIds

\* a deleteList that purged a queued entry and left its LIST_DELETE queued
C16_Witness ==
    /\ op.pc = "done"
    /\ op.kind = "deleteList"
    /\ ~op.pushed
    /\ purgedIds # {}
    /\ Cardinality(ListEntries(op.list, {"LIST_DELETE"})) = 1

(***************************************************************************)
(* Properties of the Connection Monitor                                    *)
(***************************************************************************)
\* C17: after any sequence of browser online and offline events and realtime
\* connection callbacks, isOnline equals (browserOnline and realtimeConnected).
C17_MonitorInvariant == isOnline = (browserOnline /\ realtimeConnected)

\* the realtime channel connected while the browser was online, and the
\* listener of the started Outbox Processor was told so
C17_Witness ==
    /\ isOnline
    /\ browserOnline
    /\ realtimeConnected
    /\ connectionChangeTimeout = "online"

\* C18: the Connection Monitor calls its listeners only when isOnline has
\* changed: an update that leaves isOnline as it was (a browser 'online'
\* event while the realtime channel is down, a repeated realtime callback)
\* does not call the listener of the Outbox Processor, so it does not arm
\* the debounce timer of that listener.
C18_NotifyOnlyOnChange ==
    [][isOnline' = isOnline =>
          connectionChangeTimeout' \in {connectionChangeTimeout, NoTimeout}]_vars

(***************************************************************************)
(* Properties of moveItem                                                  *)
(***************************************************************************)
\* C20: a moveItem whose clamped target index is the index the item already
\* has changes nothing in the document, and the coordinator makes no remote
\* call and appends no queue entry for it.
C20_NoOpMove ==
    /\ [][(op'.kind = "moveItem" /\ op'.noop) => docs' = docs]_vars
    /\ []((op.kind = "moveItem" /\ op.noop) => (op.calls = 0 /\ op.enq = 0))

(***************************************************************************)
(* Properties of two replicas                                              *)
(***************************************************************************)
\* each replica holds every element and every deletion the other one holds
Exchanged ==
    \A r, s \in ReplicaIds :
        applyUpdate(replicas[r], encodeStateAsUpdate(replicas[s])).seq = replicas[r].seq

ItemsWithId(r, i) ==
    {k \in 1..Len(toArray(replicas[r].seq)) : toArray(replicas[r].seq)[k].id = i}

\* C19: two replicas are forked from a state that holds item i, not completed;
\* one runs editItem(i, "Bread"), the other runs toggleItem(i); when each has
\* applied the other's encoded state, both hold exactly one item with id i,
\* with content "Bread" and isCompleted true.
C19_ConcurrentEditMerge ==
    \A a, b \in ReplicaIds, i \in MergeItemIds :
        (/\ a # b
         /\ replicas[a].did = "editItem" /\ replicas[a].itemId = i
         /\ replicas[b].did = "toggleItem" /\ replicas[b].itemId = i
         /\ \E k \in 1..Len(replicas[a].forked) :
                replicas[a].forked[k].id = i /\ ~replicas[a].forked[k].isCompleted
         /\ replicas[a].applied /\ replicas[b].applied
         /\ Exchanged)
        => \A r \in ReplicaIds :
              /\ Cardinality(ItemsWithId(r, i)) = 1
              /\ \A k \in ItemsWithId(r, i) :
                    /\ toArray(replicas[r].seq)[k].content = "Bread"
                    /\ toArray(replicas[r].seq)[k].isCompleted

(***************************************************************************)
(* Properties of failed mutations                                          *)
(***************************************************************************)
\* C21: editItem, deleteItem, toggleItem or moveItem for an item (or a list)
\* that does not exist rejects to the caller, writes no snapshot, makes no
\* remote call, appends no queue entry and publishes no event.
C21_FailedMutationSurfaced ==
    (op.kind \in ItemKinds \ {"addItem"} /\ op.absent)
        => /\ op.pc = "done" => op.rejected
           /\ ~op.saved
           /\ op.calls = 0
           /\ op.enq = 0
           /\ ~op.published

(***************************************************************************)
(* Properties of the client identity                                       *)
(***************************************************************************)
Returned == {c \in CallIds : idCalls[c].pc = "done" /\ idCalls[c].result # Null}

Saving == {c \in CallIds : idCalls[c].pc \in {"save", "saveFallback"}}

\* C22: as long as no Local Store call fails, every call of getClientId,
\* calls that overlap at their awaits included, returns the same identifier,
\* and once no call is still saving, that identifier is the one stored
\* under the metadata key client_id.
C22_ClientIdStable ==
    (\A c \in CallIds : ~idCalls[c].threw)
        => /\ \A c, d \in Returned : idCalls[c].result = idCalls[d].result
           /\ Saving = {} => \A c \in Returned : idCalls[c].result = clientIdRecord

(***************************************************************************)
(* Properties of the Remote Update Listener                                *)
(***************************************************************************)
\* C23: when the bytes of a delta of another client do not decode, the
\* callback ends without propagating the error, and the snapshots, the
\* watermarks, the sync queue and the published events are as before.
C23_MalformedDropped ==
    [][(/\ inbound.pc = "clientId"
        /\ inbound' # inbound
        /\ inbound.record[1].client_id # OurClientId
        /\ ~Decodes(inbound.record[1].update_data))
       => /\ inbound'.pc = "idle"
          /\ inbound'.outcome = "failed"
          /\ UNCHANGED <<lists, metadata, syncQueue, remoteEvents>>]_vars

\* a malformed delta of another client was dropped while an entry was queued
C23_Witness ==
    /\ inbound.outcome = "failed"
    /\ ~Decodes(inbound.record[1].update_data)
    /\ syncQueue # {}

\* C30: the handling of a delta of another client applies it to the document,
\* saves the full state as the snapshot, publishes one list-metadata-changed
\* event (when the snapshot has been saved, and in no other step) and sets
\* the watermark of the list to the timestamp of the delta; no step of it
\* appends a queue entry or pushes to the remote store.
C30_InboundFrame ==
    /\ [](inbound.outcome = "applied" =>
            LET record == inbound.record[1]
                L == record.yjs_document_id
            IN  /\ docs[L] # NoDoc
                /\ ItemIdsOf(record.update_data) \subseteq ItemIdsOf(docs[L][1])
                /\ lists[L] = getYjsState(docs, L)
                /\ getLastSyncTimestamp(metadata, L) = <<NewDate(record.created_at)>>)
    /\ [][inbound' # inbound =>
            /\ UNCHANGED <<syncQueue, usedIds, remote, crdtUpdates>>
            /\ remoteEvents' =
                  IF inbound.pc = "save"
                  THEN Append(remoteEvents,
                              Event("LIST_METADATA_CHANGED", inbound.record[1].yjs_document_id))
                  ELSE remoteEvents]_vars

\* a delta of another client was handled to the end
C30_Witness ==
    /\ inbound.outcome = "applied"
    /\ inbound.record[1].client_id = OtherClientId
    /\ inbound.pc = "idle"

(***************************************************************************)
(* Properties of the Event Bus                                             *)
(***************************************************************************)
\* C24: a publish returns normally to the publisher, and every handler
\* subscribed to the type of the event is called exactly once for it (no
\* other handler is called), whether or not some of these handlers throw.
C24_HandlerIsolation ==
    [][lastPublish'.count # lastPublish.count =>
          /\ lastPublish'.returned = "normally"
          /\ \A h \in HandlerIds :
                invocations'[h] =
                    IF h \in {sub.id : sub \in Range(eventSubscriptions[lastPublish'.type])}
                    THEN 1 ELSE 0]_vars

\* an event was published to a handler that threw and then to one subscribed
\* after it
C24_Witness ==
    /\ lastPublish.count > 0
    /\ Len(eventSubscriptions[lastPublish.type]) >= 2
    /\ eventSubscriptions[lastPublish.type][1].throws
    /\ invocations[eventSubscriptions[lastPublish.type][1].id] = 1
    /\ invocations[eventSubscriptions[lastPublish.type][2].id] = 1

(***************************************************************************)
(* Properties of the loop of the Outbox Processor                          *)
(***************************************************************************)
\* C25: a tick of the loop that runs while the Connection Monitor reports
\* offline does nothing: the timer callback can run, it starts no queue read
\* (so no remote call and no removal follow from it) and it leaves
\* consecutiveEmptyRuns, the backoff and the running loop as they are; no
\* step taken offline begins a queue read.
C25_OfflineTickNoOp ==
    /\ [](syncInterval /\ ~isOnline => CanBeginRun /\ BeginRun(runs) = runs)
    /\ [][~isOnline => /\ \A r \in RunIds : runs'[r].pc = "read" => runs[r].pc = "read"
                       /\ (Tick => UNCHANGED <<syncQueue, remote, ackedIds, loopVars, runs>>)]_vars

\* the loop is running offline with an entry to send and no run in flight
C25_Witness ==
    /\ syncInterval
    /\ isRunning
    /\ ~isOnline
    /\ syncQueue # {}
    /\ FreeRuns(runs) = RunIds

\* C26: the period at which the running loop ticks is the backoff value: the
\* 5 s base up to the third consecutive empty tick, 1.5 times longer for each
\* further empty tick, never more than the 30 s maximum, and the base again
\* once a tick has found an entry.
C26_IdleBackoff ==
    syncInterval =>
        /\ intervalMs = currentBackoffMs
        /\ intervalMs <= 2 * MAX_BACKOFF_MS
        /\ consecutiveEmptyRuns <= EMPTY_RUNS_BACKOFF => intervalMs = 2 * SYNC_INTERVAL_MS

\* a step in which a processSyncQueue invocation gets the result of its
\* first queue read
ReadReturns == \E r \in RunIds : runs[r].pc = "read" /\ runs'[r].pc # "read"

\* a step in which one of the callers of checkAndStartSync resumes: start(),
\* handleConnectionChange for an online state, or triggerSync
WakeResumes ==
    \/ startPc = "checking" /\ startPc' = "done"
    \/ isProcessingConnectionChange /\ ~isProcessingConnectionChange'
    \/ op.pc = "check" /\ op'.pc # "check"

\* C27: once more than 10 consecutive ticks of the running loop have read an
\* empty queue the loop is stopped, isRunning false and the interval timer
\* cleared; a stopped loop has no timer, so it ticks no more, and only
\* start(), a reconnection or triggerSync sets it running again; a tick
\* that reads an entry sets the count of empty ticks back to zero, and one
\* that reads none adds one to it.
C27_Parking ==
    /\ [](consecutiveEmptyRuns > EMPTY_RUNS_STOP => ~isRunning)
    /\ [](~isRunning => ~syncInterval /\ ~ENABLED Tick)
    /\ [][~isRunning /\ isRunning' => WakeResumes]_vars
    /\ [][ReadReturns =>
            consecutiveEmptyRuns' = IF syncQueue = {} THEN consecutiveEmptyRuns + 1 ELSE 0]_vars

\* the eleventh consecutive empty tick has parked the loop
C27_Witness ==
    /\ consecutiveEmptyRuns = EMPTY_RUNS_STOP + 1
    /\ ~isRunning
    /\ ~syncInterval
    /\ isOnline
    /\ isStarted

\* a step in which a processSyncQueue invocation gets the result of its
\* final queue read
RemainingReturns == \E r \in RunIds : runs[r].pc = "remaining" /\ runs'[r].pc # "remaining"

\* C28: when the queue read that ends a run of processSyncQueue returns no
\* entry the loop stops in that step (isRunning false, timer cleared), and it
\* stays as it is when an entry is left; when start(), triggerSync or the
\* handling of an online connection change resumes from its queue read
\* with the loop stopped, the loop is running afterwards exactly when the
\* queue holds an entry.
C28_DrainAndWake ==
    /\ [][RemainingReturns =>
            IF syncQueue = {} THEN ~isRunning' /\ ~syncInterval'
            ELSE UNCHANGED <<isRunning, syncInterval>>]_vars
    /\ [][WakeResumes /\ ~isRunning =>
            /\ isRunning' = (syncQueue # {})
            /\ syncInterval' = (syncQueue # {})]_vars

\* the loop, started by a queue check that found an entry, has delivered
\* everything and stopped on the drained queue
C28_Witness ==
    /\ isStarted
    /\ isOnline
    /\ ackedIds # {}
    /\ syncQueue = {}
    /\ ~isRunning
    /\ ~syncInterval
    /\ consecutiveEmptyRuns = 0
    /\ FreeRuns(runs) = RunIds

(***************************************************************************)
(* Properties of the debounce of connection changes                        *)
(***************************************************************************)
\* the state the Connection Monitor reports, as the listener is given it
ReportedState == IF isOnline THEN "online" ELSE "offline"

\* a step in which the Connection Monitor calls the listener
Notified == connVars' # connVars \/ (debounced' /\ ~debounced)

\* a step in which the debounce timer fires
Fired == connectionChangeTimeout # NoTimeout /\ connectionChangeTimeout' = NoTimeout

\* C29: of the notifications of a burst (each arrives while the timer of the
\* one before is pending) only the last keeps a timer: there is at most one
\* pending timer and it holds the state last notified; a notification
\* itself neither starts nor stops the loop; the one timer that fires calls
\* handleConnectionChange once with that state and leaves no timer behind,
\* and the call makes at most one decision: for an offline state it may stop
\* the loop and never starts it, for an online state it may begin the queue
\* check that starts the loop and never stops it.
C29_Debounce ==
    /\ [](connectionChangeTimeout # NoTimeout => connectionChangeTimeout = ReportedState)
    /\ [](debounced => connectionChangeTimeout # NoTimeout)
    /\ [][Notified => UNCHANGED <<loopVars, isProcessingConnectionChange, runs>>]_vars
    /\ [][Fired =>
            /\ ~debounced'
            /\ UNCHANGED runs
            /\ IF connectionChangeTimeout = "offline"
               THEN /\ UNCHANGED isProcessingConnectionChange
                    /\ IF isRunning /\ ~isProcessingConnectionChange
                       THEN ~isRunning' /\ ~syncInterval'
                       ELSE UNCHANGED loopVars
               ELSE /\ UNCHANGED loopVars
                    /\ isProcessingConnectionChange' =
                          (isProcessingConnectionChange \/ (isStarted /\ ~isRunning))]_vars

\* a notification replaced the pending timer of the one before it while the
\* loop was running; the timer left holds the offline state notified last
C29_Witness ==
    /\ debounced
    /\ connectionChangeTimeout = "offline"
    /\ ~isOnline
    /\ isRunning

(***************************************************************************)
(* Properties of the bootstrap guard                                       *)
(***************************************************************************)
\* C40: whenever no bootstrapFromRemote call is in flight isBootstrapping is
\* false, whichever way the calls ended (browser offline, getUserLists
\* rejected, failures inside the loop, completion); a call is skipped only
\* while another one is in flight.
C40_GuardReleased ==
    /\ []((\A b \in BootIds : ~InFlight(b)) => ~isBootstrapping)
    /\ [][\A b \in BootIds :
            boots'[b].outcome = "skipped" /\ boots[b].outcome # "skipped"
                => \E c \in BootIds : InFlight(c)]_vars

\* a call was rejected by getUserLists and the next call runs its pass
C40_Witness ==
    \E b, c \in BootIds :
        /\ b < c
        /\ boots[b].outcome = "rejected"
        /\ boots[c].pc = "exists"
        /\ isBootstrapping

(***************************************************************************)
(* Properties of the interval timer                                        *)
(***************************************************************************)
\* C39: isRunning is true exactly when an interval timer is installed, the
\* installed timer is the one syncInterval holds, and there is never more
\* than one: a queue check that resumes after the loop was started by
\* another caller installs no second timer.
C39_OneTimer ==
    /\ [](timers = IF isRunning THEN 1 ELSE 0)
    /\ [](syncInterval = isRunning)
    /\ [][WakeResumes /\ isRunning => UNCHANGED <<loopVars, runs>>]_vars

\* two callers of checkAndStartSync are past its isRunning test, with an
\* entry in the queue
C39_Witness ==
    /\ startPc = "checking"
    /\ isProcessingConnectionChange
    /\ syncQueue # {}
    /\ ~isRunning
    /\ timers = 0

(***************************************************************************)
(* Properties of the watermark                                             *)
(***************************************************************************)
\* C34: every write of last_sync of a list stores a timestamp that is not
\* before the one stored until then, in whatever order the realtime deltas
\* arrive and the bootstrap passes run.
C34_WatermarkMonotonic ==
    [][\A L \in Lists :
          getLastSyncTimestamp(metadata, L) # Null /\ getLastSyncTimestamp(metadata', L) # Null
              => getLastSyncTimestamp(metadata', L)[1] >= getLastSyncTimestamp(metadata, L)[1]]_vars

\* C33: every delta another client has stored for a list with a timestamp
\* not after the watermark of the list has been applied to the local
\* document of the list, so that a pull of the rows after the watermark
\* skips no delta that is still missing.
C33_WatermarkComplete ==
    \A row \in crdtUpdates :
        LET L == row.yjs_document_id
            since == getLastSyncTimestamp(metadata, L)
        IN  (row.client_id # OurClientId /\ since # Null /\ row.created_at <= since[1])
                => /\ docs[L] # NoDoc
                   /\ ItemIdsOf(row.update_data) \subseteq ItemIdsOf(docs[L][1])

(***************************************************************************)
(* Properties of the position moveItem gives an item                       *)
(***************************************************************************)
\* C32: moveItem of an item of the list puts the item at the index asked
\* for, clamped to 0..length-1; the list keeps its length and the other
\* items their order; and when the order of the items is the same after the
\* call as before it, the call has changed nothing in the document (it found
\* the item at the index asked for).
C32_MovePositions ==
    [][op.pc = "idle" /\ op'.kind = "moveItem" /\ op'.moved # <<>> =>
          LET before == docs[op'.list][1].items
              after == docs'[op'.list][1].items
              itemId == op'.moved[1]
          IN  /\ IndexOfItem(after, itemId) = op'.moved[2]
              /\ Len(after) = Len(before)
              /\ RemoveAt(after, IndexOfItem(after, itemId) + 1)
                    = RemoveAt(before, IndexOfItem(before, itemId) + 1)
              /\ after = before => op'.noop]_vars

(***************************************************************************)
(* Properties of the stored snapshot                                       *)
(***************************************************************************)
\* no operation of the coordinator, callback of the listener or bootstrap
\* pass is between two of its steps
Quiescent ==
    /\ op.pc = "idle"
    /\ inbound.pc = "idle"
    /\ \A b \in BootIds : ~InFlight(b)

\* C31: whenever no operation of the coordinator is in flight and the
\* document of a list is held in memory, the snapshot of the list in the
\* Local Store is the encoded full state of that document.
C31_SnapshotConsistency ==
    \A L \in Lists :
        Quiescent /\ docs[L] # NoDoc => lists[L] = getYjsState(docs, L)

(***************************************************************************)
(* Properties of deleteList run while an item mutation awaits              *)
(***************************************************************************)
\* C35: when deleteList of a list has run while an item mutation of the list
\* was awaiting its Local Store write or its remote push, then once both
\* have completed the Local Store holds no snapshot of the list and the
\* queue holds no YJS_UPDATE entry of the list.
C35_DeleteNotUndone ==
    op.kind \in ItemKinds /\ op.pc = "done" /\ op.overlapped = "deleteList"
        => /\ lists[op.list] = Null
           /\ \A e \in syncQueue : ~(e.listUUID = op.list /\ e.operationType = "YJS_UPDATE")

(***************************************************************************)
(* Properties of a remote row applied after the list was removed locally   *)
(***************************************************************************)
\* C36: when deleteList or leaveList of a list has completed locally and the
\* update callback then applies a row of that list pushed by another client,
\* no document of the list is created in memory and no snapshot of the list
\* is written to the Local Store.
C36_NoResurrection ==
    [][(/\ op.kind \in RemoveKinds
        /\ op.pc = "done"
        /\ inbound.pc = "clientId"
        /\ inbound.record[1].yjs_document_id = op.list
        /\ inbound.record[1].client_id # OurClientId
        /\ inbound'.pc # "clientId")
          => /\ docs'[op.list] = NoDoc
             /\ lists'[op.list] = Null
             /\ inbound'.pc # "save"]_vars

(***************************************************************************)
(* Properties of overlapping runs of processSyncQueue                      *)
(***************************************************************************)
\* C37: a queue entry is not sent to the remote store a second time by
\* overlapping runs: when the remote call of an entry returns with success
\* to a run, no run has sent that entry with success before.
C37_NoDoubleSend ==
    [][\A r \in RunIds :
          runs[r].pc = "send" /\ runs'[r].pc = "remove"
              => Head(Head(runs[r].todo)).uuid \notin ackedIds]_vars

(***************************************************************************)
(* Properties of the remote creation of a list                             *)
(***************************************************************************)
\* C38: the remote creation of a list is not repeated after it succeeded:
\* when the remote call of a LIST_CREATE entry returns to a run of the
\* Outbox Processor, the remote store did not hold the list before the call
\* (so a createList whose own remote creation succeeded and whose initial
\* push alone failed leaves no LIST_CREATE entry to send).
C38_NoSecondCreate ==
    [][\A r \in RunIds :
          (/\ runs[r].pc = "send"
           /\ runs'[r] # runs[r]
           /\ runs'[r].pc # "idle"
           /\ Head(Head(runs[r].todo)).operationType = "LIST_CREATE")
              => Head(Head(runs[r].todo)).listUUID \notin remote.created]_vars

====
